---- MODULE Spec2Model ----
(***************************************************************************)
(* Model of the LangGraph orchestration pipeline (core/graph.py,           *)
(* core/graph_nodes.py, core/router.py) and of the reviewer sub-graph      *)
(* (graph/reviewer_graph.py, tools/reviewer_tool.py, agents/reviewer.py).  *)
(*                                                                         *)
(* Scores are fixed-point: a dimension score is an integer number of       *)
(* tenths of a point (0..1000 for 0.0..100.0); the weighted sum is kept in *)
(* hundredths of a point, so 0.4*c + 0.4*s + 0.2*st is 4c + 4s + 2st.      *)
(***************************************************************************)
EXTENDS Integers, Sequences, FiniteSets, TLC

\* Python None, and a key that is absent from a dict
None == "None"

(***************************************************************************)
(* Program constants                                                       *)
(***************************************************************************)
\* config.MAX_REBUILD_ATTEMPTS (taken from the environment)
MAX_REBUILD_ATTEMPTS == 2
\* REVIEW_THRESHOLD, default 70.0, in tenths of a point
REVIEW_THRESHOLD == 700
\* safe_activity_log keeps the last 50 entries
LOG_CAP == 50

(***************************************************************************)
(* Bounds of the model                                                     *)
(***************************************************************************)
\* the tracker returns at most this many to-do issues
MaxIssues == 2
\* the tokens one agent call reports; token amounts are read by no routing
\* predicate, so a successful call is taken to report exactly this many and a
\* failed one this many or none
MaxTokens == 1
\* the human rejects the plan of one issue at most this many times
MaxHitlRejects == 1
\* the reviewer sub-graph is explored on a grid of scores ScoreStep tenths wide
ScoreStep == 250

Tokens == {MaxTokens}
FailTokens == {0, MaxTokens}

(***************************************************************************)
(* tools/reviewer_tool.py : calculate_review_scores                        *)
(***************************************************************************)
\* round(x, 1) of a value given in hundredths, result in tenths (the built-in
\* rounds half to even)
Round1(h) ==
    LET q == h \div 10
        r == h % 10
    IN  IF r < 5 THEN q
        ELSE IF r > 5 THEN q + 1
        ELSE IF q % 2 = 0 THEN q ELSE q + 1

\* mutant of WeightedOverall: the three dimensions weighted 0.4, 0.2, 0.4
WeightedOverall_swapped(completeness_score, security_score, standards_score) ==
    4 * completeness_score + 2 * security_score + 4 * standards_score

\* overall_score before rounding, in hundredths: weights 0.4, 0.4, 0.2
WeightedOverall(completeness_score, security_score, standards_score) ==
    4 * completeness_score + 4 * security_score + 2 * standards_score

\* approved = overall_score >= threshold, on the unrounded sum
Approved(overall, threshold) == overall >= 10 * threshold

calculate_review_scores(completeness_score, security_score, standards_score, threshold) ==
    LET overall_score == WeightedOverall(completeness_score, security_score, standards_score)
    IN  [success       |-> TRUE,
         overall_score |-> Round1(overall_score),
         threshold     |-> threshold,
         approved      |-> Approved(overall_score, threshold)]

(***************************************************************************)
(* graph/reviewer_graph.py : the nodes of the reviewer sub-graph, as       *)
(* functions of the ReviewerState record                                   *)
(***************************************************************************)
\* the result of one analysis tool: a failure carries no score
AnalysisFailed == [success |-> FALSE, score |-> 0]
AnalysisOk(score) == [success |-> TRUE, score |-> score]
\* completeness_result etc. are None until their node has run
NoResult == [success |-> FALSE, score |-> -1]

\* agents/reviewer.py: initial_state of review_generated_code_with_langgraph
InitialReviewerState ==
    [completeness_result |-> NoResult,
     security_result     |-> NoResult,
     standards_result    |-> NoResult,
     pylint_score        |-> -1,
     overall_score       |-> 0,
     threshold           |-> REVIEW_THRESHOLD,
     approved            |-> FALSE,
     success             |-> FALSE,
     error               |-> None]

node_format_files(rs, ok) ==
    IF ok THEN rs ELSE [rs EXCEPT !.error = "File formatting failed"]

\* the knowledge-base and pylint nodes write no field of the verdict; an
\* exception inside either one is caught by the node and sets the error
node_load_knowledge_base(rs, ok) ==
    IF rs.error # None \/ ok THEN rs
    ELSE [rs EXCEPT !.error = "Knowledge base loading node error"]

\* pylint_result is stored and read by no later node
node_pylint_analysis(rs, ok, pylint_score) ==
    IF rs.error # None THEN rs
    ELSE IF ok THEN [rs EXCEPT !.pylint_score = pylint_score]
    ELSE [rs EXCEPT !.error = "Pylint analysis node error"]

node_completeness_analysis(rs, result) ==
    IF rs.error # None THEN rs ELSE [rs EXCEPT !.completeness_result = result]

node_security_analysis(rs, result) ==
    IF rs.error # None THEN rs ELSE [rs EXCEPT !.security_result = result]

node_standards_analysis(rs, result) ==
    IF rs.error # None THEN rs ELSE [rs EXCEPT !.standards_result = result]

\* mutant of has_valid_analysis: a result that is present counts as valid
has_valid_analysis_present(rs) ==
    \/ rs.completeness_result # NoResult
    \/ rs.security_result # NoResult
    \/ rs.standards_result # NoResult

\* "Check if at least one analysis succeeded"
has_valid_analysis(rs) ==
    \/ rs.completeness_result.success
    \/ rs.security_result.success
    \/ rs.standards_result.success

\* "Extract scores with fallbacks": a failed analysis contributes 0.0
ExtractScore(result) == IF result.success THEN result.score ELSE 0

node_calculate_scores(rs) ==
    IF rs.error # None THEN rs
    ELSE IF ~has_valid_analysis(rs)
    THEN [rs EXCEPT !.error = "All review analyses failed - cannot calculate scores"]
    ELSE LET result == calculate_review_scores(ExtractScore(rs.completeness_result),
                                               ExtractScore(rs.security_result),
                                               ExtractScore(rs.standards_result),
                                               rs.threshold)
         IN  [rs EXCEPT !.overall_score = result.overall_score,
                        !.approved = result.approved]

node_finalize_review(rs) ==
    [rs EXCEPT !.success = (rs.error = None)]

\* store_results leaves every field of the verdict alone (mongodb_stored only)
node_store_results(rs) == rs

\* agents/reviewer.py: the dict review_generated_code_with_langgraph returns.
\* Reading the score of an analysis that never ran (its result is still None)
\* raises inside the try block, and the except branch builds the failure dict.
ReviewReturn(final_state, tokens) ==
    IF NoResult \in {final_state.completeness_result, final_state.security_result,
                     final_state.standards_result}
    THEN [success       |-> FALSE,
          overall_score |-> 0,
          approved      |-> FALSE,
          tokens_used   |-> 0,
          error         |-> "Review process failed"]
    ELSE [success       |-> final_state.success,
          overall_score |-> final_state.overall_score,
          approved      |-> final_state.approved,
          tokens_used   |-> tokens,
          error         |-> final_state.error]

\* the whole sub-graph: format_files -> ... -> calculate_scores -> finalize_review
review_generated_code_with_langgraph(fmt_ok, kb_ok, lint_ok, c, s, st, tokens) ==
    LET s1 == node_format_files(InitialReviewerState, fmt_ok)
        s2 == node_load_knowledge_base(s1, kb_ok)
        s3 == node_pylint_analysis(s2, lint_ok, 0)
        s4 == node_completeness_analysis(s3, c)
        s5 == node_security_analysis(s4, s)
        s6 == node_standards_analysis(s5, st)
        s7 == node_calculate_scores(s6)
        s8 == node_store_results(s7)
    IN  ReviewReturn(node_finalize_review(s8), tokens)

(***************************************************************************)
(* core/router.py : module-level telemetry                                 *)
(***************************************************************************)
\* processing_stats; the per-agent token and generation counters, which no
\* routing decision reads, are left out
InitialStats ==
    [workflows_executed |-> 0,
     code_prs_created   |-> 0,
     issues_processed   |-> 0,
     successful_reviews |-> 0,
     rebuild_cycles     |-> 0,
     tokens_used        |-> 0,
     errors             |-> 0,
     tasks_completed    |-> 0,
     tasks_failed       |-> 0,
     tasks_pending      |-> 0]

\* processing_stats[key] += value for every key of updates that the dict has
safe_stats_update(stats, updates) ==
    [k \in DOMAIN stats |->
        IF k \in DOMAIN updates THEN stats[k] + updates[k] ELSE stats[k]]

\* activity_logs.insert(0, entry); pop the oldest when more than 50 are held
safe_activity_log(logs, entry) ==
    LET l == <<entry>> \o logs
    IN  IF Len(l) > LOG_CAP THEN SubSeq(l, 1, Len(l) - 1) ELSE l

Entry(agent, action, status, details, issueId) ==
    [agent |-> agent, action |-> action, status |-> status,
     details |-> details, issueId |-> issueId]

\* what the UI reads: tasksFailed is served from the errors counter
get_system_stats(stats) ==
    [totalPullRequests |-> stats.code_prs_created,
     tasksCompleted    |-> stats.successful_reviews,
     tasksFailed       |-> stats.errors,
     tokensUsed        |-> stats.tokens_used]

(***************************************************************************)
(* State                                                                   *)
(***************************************************************************)
VARIABLES
    node,              \* the pipeline node that runs next ("idle" before a trigger)
    state,             \* RouterState
    processing_stats,  \* core.router.processing_stats
    activity_logs,     \* core.router.activity_logs, newest first
    pending_tasks,     \* core.router.pending_tasks
    github_client,     \* TRUE when a repo client was constructed
    done,              \* the tracker: issues transitioned to Done
    prs,               \* the repo: issues for which a PR was opened or updated
    reviewer_entered,  \* history: entries of the reviewer node, per issue
    planned,           \* history: issues whose planner has started
    left,              \* history: issues the pipeline has left (PR node or error terminal)
    hitl_rejects,      \* history: human rejections of the current issue's plan
    analyses_failed,   \* history: the last review ran and all three analyses failed
    rnode,             \* the reviewer sub-graph node that runs next
    rstate,            \* ReviewerState
    dev,               \* DeveloperState and the developer sub-graph node that runs next
    plan,              \* the planner's subtask scoring and merging
    act,               \* activity_logs, activity_lock and the threads that append
    llm,               \* LLMService.call: the retry loop of one call
    met,               \* PerformanceTracker: the daily-metrics document of today
    route,             \* _should_rebuild applied to one state under one cap
    reb,               \* a rejecting review and the rebuilder step that follows it
    fan,               \* developer graph fan-out: one generate_file branch per listed file
    hand,              \* developer -> reviewer handoff: the review queue of node_develop_code
    pg,                \* planner sub-graph: the node it is at and its PlannerState
    asm,               \* assembler tool: generate_deployment_document and the document it returns
    shr,               \* shared structures: the threads updating them and the locks they hold
    day,               \* daily metrics document under concurrent increment_daily_metrics calls
    mem,               \* the mistake lists of the developer's project memory
    gate,              \* hitl_pause: the waiting node, its input thread and its queue
    auto               \* automation_running, automation_thread, automation_lock, the
                       \* worker threads and the threads serving start/stop requests

pipeline_vars == <<node, state, processing_stats, activity_logs, pending_tasks,
                   github_client, done, prs, reviewer_entered, planned, left,
                   hitl_rejects, analyses_failed>>
reviewer_vars == <<rnode, rstate>>
vars == <<node, state, processing_stats, activity_logs, pending_tasks,
          github_client, done, prs, reviewer_entered, planned, left,
          hitl_rejects, analyses_failed, rnode, rstate, dev, plan, act, auto, gate, llm, met, route, reb, fan, hand, pg, asm, shr, day, mem>>

\* the components that are explored on their own are "off" while another runs
Off == "off"
DevOff == dev = Off
PlanOff == plan = Off
ActOff == act = Off
AutoOff == auto = Off
GateOff == gate = Off
LlmOff == llm = Off
MetOff == met = Off
RouteOff == route = Off
RebOff == reb = Off
FanOff == fan = Off
HandOff == hand = Off
PgOff == pg = Off
AsmOff == asm = Off
ShrOff == shr = Off
DayOff == day = Off
MemOff == mem = Off
other_vars == <<dev, plan, act, auto, gate, llm, met, route, reb, fan, hand, pg, asm, shr, day, mem>>
OthersOff == DevOff /\ PlanOff /\ ActOff /\ AutoOff /\ GateOff /\ LlmOff /\ MetOff /\ RouteOff /\ RebOff /\ FanOff /\ HandOff /\ PgOff /\ AsmOff /\ ShrOff /\ DayOff /\ MemOff

Issues == 1..MaxIssues

\* review_result = {} in the initial state: every .get falls back to its default
EmptyReview ==
    [success |-> FALSE, overall_score |-> 0, approved |-> FALSE,
     tokens_used |-> 0, error |-> None]

\* final_result = {} until the finalizer or the error handler writes it
NoFinalResult == [present |-> FALSE, success |-> FALSE, error |-> None]

\* core/router.py process_trigger: initial_state. The per-agent sub-totals are
\* absent from it; an absent sub-total reads as 0.
InitialRouterState ==
    [todo_jira_issues    |-> << >>,
     current_issue_index |-> 0,
     current_issue       |-> 0,
     review_result       |-> EmptyReview,
     rebuild_attempts    |-> 0,
     code_pr_created     |-> FALSE,
     final_result        |-> NoFinalResult,
     error               |-> None,
     tokens_used         |-> 0,
     needs_human         |-> FALSE,
     human_decision      |-> None,
     planner_tokens      |-> 0,
     assembler_tokens    |-> 0,
     developer_tokens    |-> 0,
     reviewer_tokens     |-> 0,
     rebuilder_tokens    |-> 0]

(***************************************************************************)
(* core/graph.py : routing predicates                                      *)
(***************************************************************************)
check_needs_human(s) ==
    IF s.error # None THEN "error"
    ELSE IF s.needs_human THEN "needs_human" ELSE "approved"

route_human_decision(s) ==
    IF s.error # None THEN "error" ELSE s.human_decision

\* mutants of should_rebuild: the cap compared with > instead of >=, and an
\* exhausted issue let through to the PR node
should_rebuild_off_by_one(s) ==
    IF s.error # None THEN "error"
    ELSE IF ~s.review_result.success THEN "error"
    ELSE IF s.review_result.approved THEN "approve"
    ELSE IF s.rebuild_attempts > MAX_REBUILD_ATTEMPTS THEN "error"
    ELSE "rebuild"

should_rebuild_ships_on_exhaustion(s) ==
    IF s.error # None THEN "error"
    ELSE IF ~s.review_result.success THEN "error"
    ELSE IF s.review_result.approved THEN "approve"
    ELSE IF s.rebuild_attempts >= MAX_REBUILD_ATTEMPTS THEN "approve"
    ELSE "rebuild"

\* mutant of should_rebuild_with: a review that did not succeed is treated as a
\* rejection
should_rebuild_with_failed_as_rejected(s, cap) ==
    IF s.error # None THEN "error"
    ELSE IF s.review_result.approved THEN "approve"
    ELSE IF s.rebuild_attempts >= cap THEN "error"
    ELSE "rebuild"

\* _should_rebuild with self.config.MAX_REBUILD_ATTEMPTS = cap
should_rebuild_with(s, cap) ==
    IF s.error # None THEN "error"
    ELSE IF ~s.review_result.success THEN "error"
    ELSE IF s.review_result.approved THEN "approve"
    ELSE IF s.rebuild_attempts >= cap THEN "error"
    ELSE "rebuild"

should_rebuild(s) == should_rebuild_with(s, MAX_REBUILD_ATTEMPTS)

should_process_issue(s) ==
    IF s.error # None THEN "error"
    ELSE IF s.current_issue_index >= Len(s.todo_jira_issues) THEN "complete"
    ELSE "continue"

\* A label the edge's table does not hold makes the graph runtime raise; the
\* exception leaves workflow.invoke and process_trigger returns a failure.
Crashed == "crashed"

AfterNextIssue(s) ==
    CASE should_process_issue(s) = "continue" -> "planner_agent"
      [] should_process_issue(s) = "complete" -> "finalizer"
      [] OTHER -> Crashed

AfterPlanner(s) ==
    CASE check_needs_human(s) = "needs_human" -> "hitl"
      [] check_needs_human(s) = "approved" -> "project_creator"
      [] check_needs_human(s) = "error" -> "error_handler"
      [] OTHER -> Crashed

\* mutant of AfterHitl: an approved plan handed straight to the developer
AfterHitl_skips_assembler(s) ==
    CASE route_human_decision(s) = "approve" -> "developer_agent"
      [] route_human_decision(s) = "reject" -> "planner_agent"
      [] route_human_decision(s) = "error" -> "error_handler"
      [] OTHER -> Crashed

AfterHitl(s) ==
    CASE route_human_decision(s) = "approve" -> "project_creator"
      [] route_human_decision(s) = "reject" -> "planner_agent"
      [] route_human_decision(s) = "error" -> "error_handler"
      [] OTHER -> Crashed

\* the table of the conditional edge that leaves reviewer_agent
ReviewerEdge(label) ==
    CASE label = "rebuild" -> "rebuilder"
      [] label = "approve" -> "pull_request"
      [] label = "error" -> "error_handler"
      [] OTHER -> Crashed

AfterReviewer(s) == ReviewerEdge(should_rebuild(s))

AfterPullRequest(s) ==
    CASE should_process_issue(s) = "continue" -> "next_issue_processor"
      [] should_process_issue(s) = "complete" -> "sonarqube_analysis"
      [] OTHER -> Crashed

(***************************************************************************)
(* What the agents can return                                              *)
(***************************************************************************)
\* planner_agent.plan_issue: the failure dict carries the tokens spent so far
PlannerOutcomes ==
    {[kind |-> "ok", tokens_used |-> t, needs_human |-> h] : t \in Tokens, h \in BOOLEAN}
    \cup {[kind |-> "fail", tokens_used |-> t, needs_human |-> FALSE] : t \in FailTokens}
    \cup {[kind |-> "raise", tokens_used |-> 0, needs_human |-> FALSE]}

\* assembler and developer: the failure dict has no tokens_used key
AgentOutcomes ==
    {[kind |-> "ok", tokens_used |-> t] : t \in Tokens}
    \cup {[kind |-> "fail", tokens_used |-> 0], [kind |-> "raise", tokens_used |-> 0]}

\* the outcomes of one analysis the pipeline is explored with
PipelineAnalyses == {AnalysisFailed, AnalysisOk(0), AnalysisOk(800)}

\* all_failed: the three analyses ran and none of them succeeded
ReviewOutcomes ==
    {[kind |-> "return",
      result |-> review_generated_code_with_langgraph(pre[1], pre[2], pre[3], c, s, st, t),
      all_failed |-> pre[1] /\ pre[2] /\ pre[3]
                     /\ ~c.success /\ ~s.success /\ ~st.success] :
        pre \in BOOLEAN \X BOOLEAN \X BOOLEAN, c \in PipelineAnalyses,
        s \in PipelineAnalyses, st \in PipelineAnalyses, t \in Tokens}
    \cup {[kind |-> "raise", result |-> EmptyReview, all_failed |-> FALSE]}

PrOutcomes == {"created", "failed", "exception"}

(***************************************************************************)
(* core/graph_nodes.py : what each node does to RouterState                *)
(***************************************************************************)
fetch_todo_issues_state(s, kind, n) ==
    IF s.error # None THEN s
    ELSE IF kind = "ok"
    THEN [s EXCEPT !.todo_jira_issues = [i \in 1..n |-> i],
                   !.current_issue_index = 0]
    ELSE IF kind = "fail" THEN [s EXCEPT !.error = "TODO issues fetch failed"]
    ELSE [s EXCEPT !.error = "TODO issues fetch error"]

\* mutant of NextIssue: the list read from its end
NextIssue_from_end(s) == s.todo_jira_issues[Len(s.todo_jira_issues) - s.current_issue_index]

\* todo_issues[current_index]
NextIssue(s) == s.todo_jira_issues[s.current_issue_index + 1]

process_next_issue_state(s) ==
    IF s.error # None \/ s.current_issue_index >= Len(s.todo_jira_issues) THEN s
    ELSE [s EXCEPT !.current_issue = NextIssue(s), !.rebuild_attempts = 0]

plan_issue_state(s, r) ==
    IF s.error # None THEN s
    ELSE IF r.kind = "raise" THEN [s EXCEPT !.error = "Planning error"]
    ELSE IF r.kind = "ok"
    THEN [s EXCEPT !.planner_tokens = r.tokens_used,
                   !.needs_human = r.needs_human,
                   !.tokens_used = @ + r.tokens_used]
    ELSE [s EXCEPT !.planner_tokens = r.tokens_used,
                   !.error = "Planning failed"]

assemble_document_state(s, r) ==
    IF s.error # None THEN s
    ELSE IF r.kind = "raise" THEN [s EXCEPT !.error = "Document assembly error"]
    ELSE IF r.kind = "ok"
    THEN [s EXCEPT !.assembler_tokens = r.tokens_used,
                   !.tokens_used = @ + r.tokens_used]
    ELSE [s EXCEPT !.assembler_tokens = r.tokens_used,
                   !.error = "Document assembly failed"]

develop_code_state(s, r) ==
    IF s.error # None THEN s
    ELSE IF r.kind = "raise" THEN [s EXCEPT !.error = "Code development error"]
    ELSE IF r.kind = "ok"
    THEN [s EXCEPT !.developer_tokens = r.tokens_used,
                   !.tokens_used = @ + r.tokens_used]
    ELSE [s EXCEPT !.developer_tokens = r.tokens_used,
                   !.error = "Code development failed"]

review_code_state(s, r) ==
    IF s.error # None THEN s
    ELSE IF r.kind = "raise" THEN [s EXCEPT !.error = "Code review error"]
    ELSE IF r.result.success
    THEN [s EXCEPT !.review_result = r.result,
                   !.reviewer_tokens = r.result.tokens_used,
                   !.tokens_used = @ + r.result.tokens_used]
    ELSE [s EXCEPT !.review_result = r.result,
                   !.reviewer_tokens = r.result.tokens_used]

rebuild_code_state(s, r) ==
    IF s.error # None THEN s
    ELSE IF r.kind = "raise" THEN [s EXCEPT !.error = "Code rebuild error"]
    ELSE LET s1 == [s EXCEPT !.rebuild_attempts = s.rebuild_attempts + 1,
                             !.tokens_used = @ + r.tokens_used,
                             !.rebuilder_tokens = @ + r.tokens_used]
         IN  IF r.kind = "ok" THEN s1
             ELSE [s1 EXCEPT !.error = "Code rebuild failed"]

\* mutant of create_code_pr_state: a failed PR treated as a node error
create_code_pr_state_fatal(s, created) ==
    IF s.error # None THEN s
    ELSE IF created
    THEN [s EXCEPT !.code_pr_created = TRUE,
                   !.current_issue_index = s.current_issue_index + 1]
    ELSE [s EXCEPT !.code_pr_created = FALSE,
                   !.error = "PR creation failed"]

\* mutant of create_code_pr_state: the index advanced only when a PR was made
create_code_pr_state_stalls(s, created) ==
    IF s.error # None THEN s
    ELSE IF created
    THEN [s EXCEPT !.code_pr_created = TRUE,
                   !.current_issue_index = s.current_issue_index + 1]
    ELSE [s EXCEPT !.code_pr_created = FALSE]

\* every path through the PR node that passes the error check advances the index
create_code_pr_state(s, created) ==
    IF s.error # None THEN s
    ELSE [s EXCEPT !.code_pr_created = created,
                   !.current_issue_index = s.current_issue_index + 1]

sonarqube_analysis_state(s, kind) ==
    IF s.error # None THEN s
    ELSE IF kind = "ok" THEN s
    ELSE IF kind = "fail" THEN [s EXCEPT !.error = "SonarQube analysis failed"]
    ELSE [s EXCEPT !.error = "SonarQube analysis error"]

finalize_workflow_state(s) ==
    [s EXCEPT !.final_result =
        [present |-> TRUE, success |-> (s.error = None), error |-> s.error]]

\* error_msg = state.get("error", "Unknown error"): the key is always there, so
\* the default never applies and an unset error reads as None
ErrorMsg(s) == s.error

handle_error_state(s) ==
    [s EXCEPT !.final_result =
        [present |-> TRUE, success |-> FALSE, error |-> ErrorMsg(s)]]

RECURSIVE LogAll(_, _)
\* safe_activity_log called once per entry, in order
LogAll(logs, entries) ==
    IF entries = << >> THEN logs
    ELSE LogAll(safe_activity_log(logs, Head(entries)), Tail(entries))

(***************************************************************************)
(* The pipeline: one action per node, with the edge that follows it        *)
(***************************************************************************)
\* router.process_trigger builds initial_state and invokes the workflow
process_trigger ==
    /\ node = "idle"
    /\ node' = "trigger_processor"
    /\ state' = InitialRouterState
    /\ UNCHANGED <<processing_stats, activity_logs, pending_tasks, github_client,
                   done, prs, reviewer_entered, planned, left, hitl_rejects>>

node_process_trigger ==
    /\ node = "trigger_processor"
    /\ processing_stats' = safe_stats_update(processing_stats, [workflows_executed |-> 1])
    /\ node' = "jira_client"
    /\ UNCHANGED <<state, activity_logs, pending_tasks, github_client, done, prs,
                   reviewer_entered, planned, left, hitl_rejects>>

node_fetch_todo_issues ==
    /\ node = "jira_client"
    /\ \E kind \in {"ok", "fail", "raise"}, n \in 0..MaxIssues :
          state' = fetch_todo_issues_state(state, kind, n)
    /\ node' = "next_issue_processor"
    /\ UNCHANGED <<processing_stats, activity_logs, pending_tasks, github_client,
                   done, prs, reviewer_entered, planned, left, hitl_rejects>>

node_process_next_issue ==
    /\ node = "next_issue_processor"
    /\ state' = process_next_issue_state(state)
    /\ IF state.error = None /\ state.current_issue_index < Len(state.todo_jira_issues)
       THEN /\ processing_stats' =
                  [safe_stats_update(processing_stats, [issues_processed |-> 1])
                     EXCEPT !.tasks_pending = pending_tasks + 1]
            /\ pending_tasks' = pending_tasks + 1
            /\ hitl_rejects' = 0
       ELSE UNCHANGED <<processing_stats, pending_tasks, hitl_rejects>>
    \* transition_issue(key, 'Start Progress'): its outcome is only logged and
    \* the tracker's in-progress status is not part of this model
    /\ node' = AfterNextIssue(state')
    /\ UNCHANGED <<activity_logs, github_client, done, prs, reviewer_entered, planned, left>>

node_plan_issue ==
    /\ node = "planner_agent"
    /\ \E r \in PlannerOutcomes :
          /\ state' = plan_issue_state(state, r)
          /\ activity_logs' =
                IF state.error # None THEN activity_logs
                ELSE LogAll(activity_logs,
                        <<Entry("PlannerAgent", "Started", "starting", "started", state.current_issue),
                          Entry("PlannerAgent", "Processing", "info", "processing", state.current_issue)>>
                        \o (IF r.kind = "ok"
                            THEN <<Entry("PlannerAgent", "Subtasks Generated", "success", "subtasks", state.current_issue),
                                   Entry("PlannerAgent", "Planning Completed", "success", "completed", state.current_issue)>>
                            ELSE << >>))
    /\ planned' = planned \cup {state.current_issue}
    /\ node' = AfterPlanner(state')
    /\ UNCHANGED <<processing_stats, pending_tasks, github_client, done, prs,
                   reviewer_entered, left, hitl_rejects>>

\* core/hitl.py: the human answers, or the wait times out and approves
hitl_pause ==
    /\ node = "hitl"
    /\ \E decision \in {"approve", "reject"} :
          /\ decision = "reject" => hitl_rejects < MaxHitlRejects
          /\ state' = [state EXCEPT !.human_decision = decision]
          /\ hitl_rejects' = IF decision = "reject" THEN hitl_rejects + 1 ELSE hitl_rejects
    /\ node' = AfterHitl(state')
    /\ UNCHANGED <<processing_stats, activity_logs, pending_tasks, github_client,
                   done, prs, reviewer_entered, planned, left>>

\* node_create_recursive_project: it touches none of the fields modelled here
node_create_recursive_project ==
    /\ node = "project_creator"
    /\ node' = "assembler_agent"
    /\ UNCHANGED <<state, processing_stats, activity_logs, pending_tasks,
                   github_client, done, prs, reviewer_entered, planned, left,
                   hitl_rejects>>

node_assemble_document ==
    /\ node = "assembler_agent"
    /\ \E r \in AgentOutcomes :
          /\ state' = assemble_document_state(state, r)
          /\ activity_logs' =
                IF state.error # None THEN activity_logs
                ELSE LogAll(activity_logs,
                        <<Entry("AssemblerAgent", "Started", "starting", "started", state.current_issue),
                          Entry("AssemblerAgent", "Processing", "info", "processing", state.current_issue)>>
                        \o (IF r.kind = "ok"
                            THEN <<Entry("AssemblerAgent", "Document Assembly Completed", "success", "completed", state.current_issue)>>
                            ELSE << >>))
    /\ node' = "developer_agent"
    /\ UNCHANGED <<processing_stats, pending_tasks, github_client, done, prs,
                   reviewer_entered, planned, left, hitl_rejects>>

node_develop_code ==
    /\ node = "developer_agent"
    /\ \E r \in AgentOutcomes :
          /\ state' = develop_code_state(state, r)
          /\ activity_logs' =
                IF state.error # None THEN activity_logs
                ELSE LogAll(activity_logs,
                        <<Entry("DeveloperAgent", "Started", "info", "started", state.current_issue),
                          Entry("DeveloperAgent", "Processing", "info", "processing", state.current_issue)>>
                        \o (IF r.kind = "ok"
                            THEN <<Entry("DeveloperAgent", "Code Generation Completed", "success", "completed", state.current_issue)>>
                            ELSE << >>))
    /\ node' = "reviewer_agent"
    /\ UNCHANGED <<processing_stats, pending_tasks, github_client, done, prs,
                   reviewer_entered, planned, left, hitl_rejects>>

node_review_code ==
    /\ node = "reviewer_agent"
    /\ \E r \in ReviewOutcomes :
          /\ state' = review_code_state(state, r)
          /\ activity_logs' =
                IF state.error # None THEN activity_logs
                ELSE LogAll(activity_logs,
                        <<Entry("ReviewerAgent", "Started", "starting", "started", state.current_issue),
                          Entry("ReviewerAgent", "Processing", "info", "processing", state.current_issue)>>
                        \o (IF r.kind = "return" /\ r.result.success
                            THEN <<Entry("ReviewerAgent", "Code Review Completed",
                                         IF r.result.approved THEN "success" ELSE "warning",
                                         "completed", state.current_issue)>>
                            ELSE << >>))
          /\ processing_stats' =
                IF state.error = None /\ r.kind = "return" /\ r.result.success
                THEN safe_stats_update(processing_stats, [successful_reviews |-> 1])
                ELSE processing_stats
          /\ analyses_failed' = IF state.error = None THEN r.all_failed ELSE analyses_failed
    /\ reviewer_entered' =
          [reviewer_entered EXCEPT ![state.current_issue] = @ + 1]
    /\ node' = AfterReviewer(state')
    /\ UNCHANGED <<pending_tasks, github_client, done, prs, planned, left, hitl_rejects>>

node_rebuild_code ==
    /\ node = "rebuilder"
    /\ \E r \in AgentOutcomes :
          /\ state' = rebuild_code_state(state, r)
          /\ activity_logs' =
                IF state.error = None /\ r.kind = "ok"
                THEN safe_activity_log(activity_logs,
                        Entry("RebuilderAgent", "Code Rebuilt", "success", "rebuilt", state.current_issue))
                ELSE activity_logs
          /\ processing_stats' =
                IF state.error = None /\ r.kind = "ok"
                THEN safe_stats_update(processing_stats, [rebuild_cycles |-> 1])
                ELSE processing_stats
    /\ node' = "reviewer_agent"
    /\ UNCHANGED <<pending_tasks, github_client, done, prs, reviewer_entered,
                   planned, left, hitl_rejects>>

node_create_code_pr ==
    /\ node = "pull_request"
    /\ IF state.error # None
       THEN /\ state' = state
            /\ UNCHANGED <<processing_stats, activity_logs, done, prs>>
       ELSE IF ~github_client
       THEN /\ state' = create_code_pr_state(state, FALSE)
            /\ UNCHANGED <<processing_stats, activity_logs, done, prs>>
       ELSE \E outcome \in PrOutcomes :
              /\ state' = create_code_pr_state(state, outcome = "created")
              /\ IF outcome = "created"
                 THEN /\ prs' = prs \cup {state.current_issue}
                      /\ processing_stats' =
                            safe_stats_update(processing_stats, [code_prs_created |-> 1])
                      \* transition_issue(key, 'Done') may fail; that is only logged
                      /\ \E ok \in BOOLEAN :
                            done' = IF ok THEN done \cup {state.current_issue} ELSE done
                      /\ activity_logs' = safe_activity_log(activity_logs,
                            Entry("GitHubAgent", "PR Created", "success", "pr", state.current_issue))
                 ELSE UNCHANGED <<processing_stats, activity_logs, done, prs>>
    /\ left' = left \cup {state.current_issue}
    /\ node' = AfterPullRequest(state')
    /\ UNCHANGED <<pending_tasks, github_client, reviewer_entered, planned, hitl_rejects>>

node_sonarqube_analysis ==
    /\ node = "sonarqube_analysis"
    /\ \E kind \in {"ok", "fail", "raise"} :
          /\ state' = sonarqube_analysis_state(state, kind)
          /\ activity_logs' =
                IF state.error = None /\ kind = "ok"
                THEN safe_activity_log(activity_logs,
                        Entry("SonarQubeAgent", "Analysis Completed", "success", "score", None))
                ELSE activity_logs
    /\ node' = "finalizer"
    /\ UNCHANGED <<processing_stats, pending_tasks, github_client, done, prs,
                   reviewer_entered, planned, left, hitl_rejects>>

node_finalize_workflow ==
    /\ node = "finalizer"
    /\ state' = finalize_workflow_state(state)
    /\ processing_stats' =
          safe_stats_update(processing_stats, [tokens_used |-> state.tokens_used])
    /\ node' = "END"
    /\ UNCHANGED <<activity_logs, pending_tasks, github_client, done, prs,
                   reviewer_entered, planned, left, hitl_rejects>>

node_handle_error ==
    /\ node = "error_handler"
    /\ state' = handle_error_state(state)
    /\ processing_stats' = safe_stats_update(processing_stats, [errors |-> 1])
    /\ activity_logs' = safe_activity_log(activity_logs,
          Entry("System", "Error Occurred", "error", ErrorMsg(state), None))
    /\ left' = left \cup {state.current_issue}
    /\ node' = "END"
    /\ UNCHANGED <<pending_tasks, github_client, done, prs, reviewer_entered,
                   planned, hitl_rejects>>

PipelineInit ==
    /\ node = "idle"
    /\ state = InitialRouterState
    /\ processing_stats = InitialStats
    /\ activity_logs = << >>
    /\ pending_tasks = 0
    /\ github_client \in BOOLEAN
    /\ done = {}
    /\ prs = {}
    /\ reviewer_entered = [i \in Issues |-> 0]
    /\ planned = {}
    /\ left = {}
    /\ hitl_rejects = 0
    /\ analyses_failed = FALSE

ReviewerIdle ==
    /\ rnode = "off"
    /\ rstate = InitialReviewerState

Init == PipelineInit /\ ReviewerIdle /\ OthersOff

Next ==
    \/ process_trigger /\ UNCHANGED <<analyses_failed, rnode, rstate, other_vars>>
    \/ node_process_trigger /\ UNCHANGED <<analyses_failed, rnode, rstate, other_vars>>
    \/ node_fetch_todo_issues /\ UNCHANGED <<analyses_failed, rnode, rstate, other_vars>>
    \/ node_process_next_issue /\ UNCHANGED <<analyses_failed, rnode, rstate, other_vars>>
    \/ node_plan_issue /\ UNCHANGED <<analyses_failed, rnode, rstate, other_vars>>
    \/ hitl_pause /\ UNCHANGED <<analyses_failed, rnode, rstate, other_vars>>
    \/ node_create_recursive_project /\ UNCHANGED <<analyses_failed, rnode, rstate, other_vars>>
    \/ node_assemble_document /\ UNCHANGED <<analyses_failed, rnode, rstate, other_vars>>
    \/ node_develop_code /\ UNCHANGED <<analyses_failed, rnode, rstate, other_vars>>
    \/ node_review_code /\ UNCHANGED <<reviewer_vars, other_vars>>
    \/ node_rebuild_code /\ UNCHANGED <<analyses_failed, rnode, rstate, other_vars>>
    \/ node_create_code_pr /\ UNCHANGED <<analyses_failed, rnode, rstate, other_vars>>
    \/ node_sonarqube_analysis /\ UNCHANGED <<analyses_failed, rnode, rstate, other_vars>>
    \/ node_finalize_workflow /\ UNCHANGED <<analyses_failed, rnode, rstate, other_vars>>
    \/ node_handle_error /\ UNCHANGED <<analyses_failed, rnode, rstate, other_vars>>

Spec == Init /\ [][Next]_vars

(***************************************************************************)
(* The reviewer sub-graph on its own, one action per node                  *)
(* (graph/reviewer_graph.py build_reviewer_graph)                          *)
(***************************************************************************)
\* the scores an analysis is explored with: a grid over [0,100] and the
\* values next to the approval threshold
Scores ==
    {k * ScoreStep : k \in 0..(1000 \div ScoreStep)}
    \cup {1000, REVIEW_THRESHOLD - 1, REVIEW_THRESHOLD, REVIEW_THRESHOLD + 2}

\* pylint scores are on a 0..10 scale (tenths)
LintScores == {0, 100}
Analyses == {AnalysisFailed} \cup {AnalysisOk(x) : x \in Scores}

r_format_files ==
    /\ rnode = "format_files"
    /\ \E ok \in BOOLEAN : rstate' = node_format_files(rstate, ok)
    /\ rnode' = "load_knowledge_base"

r_load_knowledge_base ==
    /\ rnode = "load_knowledge_base"
    /\ \E ok \in BOOLEAN : rstate' = node_load_knowledge_base(rstate, ok)
    /\ rnode' = "pylint_analysis"

r_pylint_analysis ==
    /\ rnode = "pylint_analysis"
    /\ \E ok \in BOOLEAN, sc \in LintScores : rstate' = node_pylint_analysis(rstate, ok, sc)
    /\ rnode' = "completeness_analysis"

r_completeness_analysis ==
    /\ rnode = "completeness_analysis"
    /\ \E result \in Analyses : rstate' = node_completeness_analysis(rstate, result)
    /\ rnode' = "security_analysis"

r_security_analysis ==
    /\ rnode = "security_analysis"
    /\ \E result \in Analyses : rstate' = node_security_analysis(rstate, result)
    /\ rnode' = "standards_analysis"

r_standards_analysis ==
    /\ rnode = "standards_analysis"
    /\ \E result \in Analyses : rstate' = node_standards_analysis(rstate, result)
    /\ rnode' = "calculate_scores"

r_calculate_scores ==
    /\ rnode = "calculate_scores"
    /\ rstate' = node_calculate_scores(rstate)
    /\ rnode' = "store_results"

r_store_results ==
    /\ rnode = "store_results"
    /\ rstate' = node_store_results(rstate)
    /\ rnode' = "finalize_review"

r_finalize_review ==
    /\ rnode = "finalize_review"
    /\ rstate' = node_finalize_review(rstate)
    /\ rnode' = "END"

\* the pipeline is not running while the sub-graph is explored on its own
PipelineOff ==
    /\ node = "off"
    /\ state = InitialRouterState
    /\ processing_stats = InitialStats
    /\ activity_logs = << >>
    /\ pending_tasks = 0
    /\ github_client = FALSE
    /\ done = {}
    /\ prs = {}
    /\ reviewer_entered = [i \in Issues |-> 0]
    /\ planned = {}
    /\ left = {}
    /\ hitl_rejects = 0
    /\ analyses_failed = FALSE

InitReview ==
    /\ PipelineOff
    /\ OthersOff
    /\ rnode = "format_files"
    /\ rstate = InitialReviewerState

NextReview ==
    \/ r_format_files /\ UNCHANGED <<pipeline_vars, other_vars>>
    \/ r_load_knowledge_base /\ UNCHANGED <<pipeline_vars, other_vars>>
    \/ r_pylint_analysis /\ UNCHANGED <<pipeline_vars, other_vars>>
    \/ r_completeness_analysis /\ UNCHANGED <<pipeline_vars, other_vars>>
    \/ r_security_analysis /\ UNCHANGED <<pipeline_vars, other_vars>>
    \/ r_standards_analysis /\ UNCHANGED <<pipeline_vars, other_vars>>
    \/ r_calculate_scores /\ UNCHANGED <<pipeline_vars, other_vars>>
    \/ r_store_results /\ UNCHANGED <<pipeline_vars, other_vars>>
    \/ r_finalize_review /\ UNCHANGED <<pipeline_vars, other_vars>>

SpecReview == InitReview /\ [][NextReview]_vars

(***************************************************************************)
(* The developer sub-graph (graph/developer_graph.py build_developer_graph) *)
(* as DeveloperAgent.generate_code runs it                                 *)
(***************************************************************************)
\* file_structure.files lists at most this many files
MaxFiles == 2
FileNames == {"a.py", "b.py"}
\* the lists of filenames a deployment document can carry (an LLM wrote it:
\* nothing removes a repeated filename)
FileLists == UNION {[1..n -> FileNames] : n \in 0..MaxFiles}

\* the keys of a list of file specs
Filenames(files) == {files[i] : i \in 1..Len(files)}

\* generate_code: initial_state. generated_files is the set of keys of the
\* filename -> code map; pending holds the Sends that have not run yet.
InitialDeveloperState(files, feedback) ==
    [node            |-> "check_feedback",
     files           |-> files,
     files_to_generate |-> << >>,
     pending         |-> {},
     feedback        |-> feedback,
     generated_files |-> {},
     tokens_used     |-> 0,
     llm_tokens      |-> 0,
     error           |-> "",
     success         |-> FALSE]

route_feedback(d) == IF d.feedback THEN "correct" ELSE "generate"
route_success_or_error(d) == IF d.error # "" THEN "error" ELSE "success"

\* the reducer of DeveloperState.generated_files: {**x, **y}
MergeFiles(x, y) == x \cup y

\* the reducer of DeveloperState.tokens_used: x + y
SumTokens(x, y) == x + y

\* a node that leaves tokens_used out of the dictionary it returns: the
\* reducer keeps the channel's value
ReturnWithoutTokens(d) == d

\* a node that ends with "return state": every key of the state it was given
\* comes back as an update, so the reducer of tokens_used adds the value the
\* node read to the value the channel holds (generated_files merges with
\* itself and stays as it is)
ReturnState(d) ==
    [d EXCEPT !.generated_files = MergeFiles(d.generated_files, d.generated_files),
              !.tokens_used = SumTokens(d.tokens_used, d.tokens_used)]

d_check_feedback ==
    /\ dev.node = "check_feedback"
    /\ dev' = [ReturnState(dev) EXCEPT
                   !.node = IF route_feedback(dev) = "correct"
                            THEN "accumulate_feedback" ELSE "load_memory_context"]

d_load_memory_context ==
    /\ dev.node = "load_memory_context"
    /\ dev' = [ReturnState(dev) EXCEPT !.node = "plan_files"]

\* plan_files and the fan-out _route_to_file_generation: one Send per listed
\* file; with no file listed no node is scheduled and the graph run ends
d_plan_files ==
    /\ dev.node = "plan_files"
    /\ dev' = [ReturnState(dev) EXCEPT
                          !.files_to_generate = dev.files,
                          !.pending = 1..Len(dev.files),
                          !.node = IF Len(dev.files) = 0 THEN "END" ELSE "generate_file"]

\* one branch of the fan-out: the LLM call returns its text and its token
\* count, or raises; the branch returns {generated_files, tokens_used}
d_generate_file ==
    /\ dev.node = "generate_file"
    /\ \E i \in dev.pending, ok \in BOOLEAN, tokens \in Tokens :
          IF ok
          THEN dev' = [dev EXCEPT
                    !.generated_files = MergeFiles(dev.generated_files, {dev.files_to_generate[i]}),
                    !.tokens_used = SumTokens(dev.tokens_used, tokens),
                    !.llm_tokens = dev.llm_tokens + tokens,
                    !.pending = dev.pending \ {i},
                    !.node = IF dev.pending = {i} THEN "merge_generated_files"
                                                   ELSE "generate_file"]
          ELSE dev' = [dev EXCEPT !.node = "raised"]

d_merge_generated_files ==
    /\ dev.node = "merge_generated_files"
    /\ dev' = [ReturnState(dev) EXCEPT !.node = "update_memory_after_generation"]

d_update_memory_after_generation ==
    /\ dev.node = "update_memory_after_generation"
    /\ dev' = [ReturnState(dev) EXCEPT !.node = IF route_success_or_error(dev) = "success"
                                   THEN "compile_results" ELSE "handle_error"]

d_accumulate_feedback ==
    /\ dev.node = "accumulate_feedback"
    /\ dev' = [ReturnState(dev) EXCEPT !.node = IF route_success_or_error(dev) = "success"
                                   THEN "correct_code" ELSE "handle_error"]

\* correct_code_with_feedback corrects the files of state.generated_files,
\* one LLM call each, and returns the corrected map or a failure.  The node
\* adds the tool's token total to its own copy of the state and returns
\* {generated_files} alone, so the channel tokens_used gets no update.
d_correct_code ==
    /\ dev.node = "correct_code"
    /\ \E ok \in BOOLEAN, tokens \in Tokens :
          LET d0 == [dev EXCEPT !.llm_tokens =
                                   dev.llm_tokens + Cardinality(dev.generated_files) * tokens]
              d1 == IF ok
                    THEN [ReturnWithoutTokens(d0) EXCEPT !.generated_files =
                                        MergeFiles(dev.generated_files, dev.generated_files)]
                    ELSE [dev EXCEPT !.error = "Code correction failed"]
          IN  dev' = [d1 EXCEPT !.node = IF route_success_or_error(d1) = "success"
                                         THEN "update_memory_after_correction"
                                         ELSE "handle_error"]

d_update_memory_after_correction ==
    /\ dev.node = "update_memory_after_correction"
    /\ dev' = [ReturnState(dev) EXCEPT !.node = IF route_success_or_error(dev) = "success"
                                   THEN "compile_results" ELSE "handle_error"]

d_compile_results ==
    /\ dev.node = "compile_results"
    /\ dev' = [dev EXCEPT !.node = "END"]

d_handle_error ==
    /\ dev.node = "handle_error"
    /\ dev' = [dev EXCEPT !.node = "END"]

\* generate_code after graph.invoke: an exception or a final error gives
\* success False, anything else success True with final_state.generated_files
generate_code ==
    /\ dev.node \in {"END", "raised"}
    /\ dev' = [dev EXCEPT !.node = "returned",
                          !.success = (dev.node = "END" /\ dev.error = "")]

InitDev ==
    /\ PipelineOff
    /\ ReviewerIdle
    /\ PlanOff /\ ActOff /\ AutoOff /\ GateOff /\ LlmOff /\ MetOff /\ RouteOff /\ RebOff /\ FanOff /\ HandOff /\ PgOff /\ AsmOff /\ ShrOff /\ DayOff /\ MemOff
    /\ \E files \in FileLists, feedback \in BOOLEAN :
          dev = InitialDeveloperState(files, feedback)

not_dev == <<pipeline_vars, reviewer_vars, plan, act, auto, gate, llm, met, route, reb, fan, hand, pg, asm, shr, day, mem>>

NextDev ==
    \/ d_check_feedback /\ UNCHANGED not_dev
    \/ d_load_memory_context /\ UNCHANGED not_dev
    \/ d_plan_files /\ UNCHANGED not_dev
    \/ d_generate_file /\ UNCHANGED not_dev
    \/ d_merge_generated_files /\ UNCHANGED not_dev
    \/ d_update_memory_after_generation /\ UNCHANGED not_dev
    \/ d_accumulate_feedback /\ UNCHANGED not_dev
    \/ d_correct_code /\ UNCHANGED not_dev
    \/ d_update_memory_after_correction /\ UNCHANGED not_dev
    \/ d_compile_results /\ UNCHANGED not_dev
    \/ d_handle_error /\ UNCHANGED not_dev
    \/ generate_code /\ UNCHANGED not_dev

SpecDev == InitDev /\ [][NextDev]_vars

(***************************************************************************)
(* tools/planner_tools.py : score_subtasks_with_llm and merge_subtasks     *)
(* Subtask scores are on a 0..10 scale, kept in tenths.                    *)
(***************************************************************************)
\* the subtask graph has at most this many nodes
MaxSubtasks == 2
\* the merging model returns at most this many merged subtasks
MaxMerged == 2
\* float(score_item.get('score', 7.5))
DEFAULT_SUBTASK_SCORE == 75

\* what the scoring model can say about one subtask: nothing (no item with its
\* id), an item without a score, or an item with any number as its score
NoItem == [kind |-> "no item", score |-> 0]
NoScore == [kind |-> "no score", score |-> 0]
ItemScore(score) == [kind |-> "score", score |-> score]
ItemReplies == {NoItem, NoScore} \cup {ItemScore(x) : x \in {-10, 0, 100, 150}}

RECURSIVE SumScores(_, _)
\* the sum of scored[i].score over the ids in S
SumScores(scored, S) ==
    IF S = {} THEN 0
    ELSE LET i == CHOOSE x \in S : TRUE
         IN  scored[i] + SumScores(scored, S \ {i})

\* round(total / count, 1) for a total in tenths: the nearest tenth, a tie
\* going to the even one
RoundAvg(total, count) ==
    LET q == total \div count
        r == total % count
    IN  IF 2 * r < count THEN q
        ELSE IF 2 * r > count THEN q + 1
        ELSE IF q % 2 = 0 THEN q ELSE q + 1

\* score_subtasks_with_llm: the scored subtasks (id -> score) for a reply that
\* maps each node id to what the model said about it; the score is taken as
\* it comes, and with no usable item every node gets the default
ScoredSubtasks(nodes, reply) ==
    LET items == {i \in nodes : reply[i] # NoItem}
    IN  IF items = {}
        THEN [i \in nodes |-> DEFAULT_SUBTASK_SCORE]
        ELSE [i \in items |-> IF reply[i] = NoScore THEN DEFAULT_SUBTASK_SCORE
                                                    ELSE reply[i].score]

\* merge_subtasks: the score of one merged subtask from its covered_subtasks
MergedScore(scored, covered) ==
    IF covered # {}
    THEN LET found == covered \cap DOMAIN scored
         IN  IF found # {} THEN RoundAvg(SumScores(scored, found), Cardinality(found))
                           ELSE 0
    ELSE IF DOMAIN scored # {}
         THEN RoundAvg(SumScores(scored, DOMAIN scored), Cardinality(DOMAIN scored))
         ELSE 0

InitialPlan(n) ==
    [node |-> "score_subtasks", nodes |-> 1..n, scored |-> << >>, merged |-> << >>]

\* an empty subtask graph is scored without a model call
score_subtasks_with_llm ==
    /\ plan.node = "score_subtasks"
    /\ \E reply \in [plan.nodes -> ItemReplies] :
          plan' = [plan EXCEPT !.scored = ScoredSubtasks(plan.nodes, reply),
                               !.node = "merge_subtasks"]

\* the merging model names, for each merged subtask, the subtasks it covers
\* (none named: the average of all scored subtasks is used)
merge_subtasks ==
    /\ plan.node = "merge_subtasks"
    /\ \E m \in 1..MaxMerged :
          \E covered \in [1..m -> SUBSET (1..MaxSubtasks)] :
             plan' = [plan EXCEPT
                        !.merged = [k \in 1..m |-> MergedScore(plan.scored, covered[k])],
                        !.node = "done"]

InitPlan ==
    /\ PipelineOff
    /\ ReviewerIdle
    /\ DevOff /\ ActOff /\ AutoOff /\ GateOff /\ LlmOff /\ MetOff /\ RouteOff /\ RebOff /\ FanOff /\ HandOff /\ PgOff /\ AsmOff /\ ShrOff /\ DayOff /\ MemOff
    /\ \E n \in 0..MaxSubtasks : plan = InitialPlan(n)

not_plan == <<pipeline_vars, reviewer_vars, dev, act, auto, gate, llm, met, route, reb, fan, hand, pg, asm, shr, day, mem>>

NextPlan ==
    \/ score_subtasks_with_llm /\ UNCHANGED not_plan
    \/ merge_subtasks /\ UNCHANGED not_plan

SpecPlan == InitPlan /\ [][NextPlan]_vars

(***************************************************************************)
(* core/router.py : safe_activity_log called from several threads          *)
(***************************************************************************)
\* threads that append activity events
MaxThreads == 2
\* events appended in one exploration (more than the log can hold)
MaxAppends == 52
Threads == 1..MaxThreads
NoThread == 0

\* activity_logs.insert(0, entry)
activity_insert(logs, entry) == <<entry>> \o logs

\* mutant of activity_trim: the head is dropped instead of the tail
activity_trim_head(logs) ==
    IF Len(logs) > LOG_CAP THEN Tail(logs) ELSE logs

\* if len(activity_logs) > 50: activity_logs.pop()
activity_trim(logs) ==
    IF Len(logs) > LOG_CAP THEN SubSeq(logs, 1, Len(logs) - 1) ELSE logs

\* issued counts the calls and inserted the inserts; an event is identified
\* by the number of its insert, which it gets when it enters the log
InitialAct ==
    [activity_logs |-> << >>,
     activity_lock |-> NoThread,
     pc            |-> [th \in Threads |-> "idle"],
     issued        |-> 0,
     inserted      |-> 0]

\* a thread calls safe_activity_log(entry)
a_call(th) ==
    /\ act.pc[th] = "idle"
    /\ act.issued < MaxAppends
    /\ act' = [act EXCEPT !.pc[th] = "acquire",
                          !.issued = act.issued + 1]

\* with activity_lock:
a_acquire(th) ==
    /\ act.pc[th] = "acquire"
    /\ act.activity_lock = NoThread
    /\ act' = [act EXCEPT !.activity_lock = th, !.pc[th] = "insert"]

a_insert(th) ==
    /\ act.pc[th] = "insert"
    /\ act' = [act EXCEPT !.activity_logs = activity_insert(act.activity_logs, act.inserted + 1),
                          !.inserted = act.inserted + 1,
                          !.pc[th] = "trim"]

a_trim(th) ==
    /\ act.pc[th] = "trim"
    /\ act' = [act EXCEPT !.activity_logs = activity_trim(act.activity_logs),
                          !.pc[th] = "release"]

a_release(th) ==
    /\ act.pc[th] = "release"
    /\ act' = [act EXCEPT !.activity_lock = NoThread, !.pc[th] = "idle"]

InitAct ==
    /\ PipelineOff
    /\ ReviewerIdle
    /\ DevOff /\ PlanOff /\ AutoOff /\ GateOff /\ LlmOff /\ MetOff /\ RouteOff /\ RebOff /\ FanOff /\ HandOff /\ PgOff /\ AsmOff /\ ShrOff /\ DayOff /\ MemOff
    /\ act = InitialAct

not_act == <<pipeline_vars, reviewer_vars, dev, plan, auto, gate, llm, met, route, reb, fan, hand, pg, asm, shr, day, mem>>

NextAct ==
    \/ \E th \in Threads : a_call(th) /\ UNCHANGED not_act
    \/ \E th \in Threads : a_acquire(th) /\ UNCHANGED not_act
    \/ \E th \in Threads : a_insert(th) /\ UNCHANGED not_act
    \/ \E th \in Threads : a_trim(th) /\ UNCHANGED not_act
    \/ \E th \in Threads : a_release(th) /\ UNCHANGED not_act

SpecAct == InitAct /\ [][NextAct]_vars

(***************************************************************************)
(* core/router.py : start_automation, stop_automation, _automation_worker  *)
(***************************************************************************)
\* worker threads created in one exploration
MaxWorkers == 2
\* nodes the workflow of one trigger runs through
MaxNodes == 2
Workers == 1..MaxWorkers
\* the threads of the UI server that serve start and stop requests
Clients == {"ui1", "ui2"}
NoClient == "none"
NoWorker == 0

\* a worker: pc is "unborn", "started", "pipeline" (inside process_trigger),
\* "loop" (at the while test), "sleep" (inside time.sleep(5)) or "dead";
\* nodes counts the workflow nodes it has begun, in_flight says one is running
NewWorker == [pc |-> "unborn", nodes |-> 0, in_flight |-> FALSE]

InitialAuto ==
    [automation_running |-> FALSE,
     automation_thread  |-> NoWorker,
     automation_lock    |-> NoClient,
     worker    |-> [w \in Workers |-> NewWorker],
     pc        |-> [c \in Clients |-> "idle"],
     result    |-> [c \in Clients |-> "none"],
     starts_ok |-> 0,
     stops_ok  |-> 0]

is_alive(a, w) == w # NoWorker /\ a.worker[w].pc \notin {"unborn", "dead"}
Unborn(a) == {w \in Workers : a.worker[w].pc = "unborn"}

\* mutant of LockFree: the lock is never seen as held
LockFree_always(a) == TRUE

\* with automation_lock: the lock can be taken when nobody holds it
LockFree(a) == a.automation_lock = NoClient

\* a request arrives and its thread goes for the lock
start_call(c) ==
    /\ auto.pc[c] = "idle"
    /\ auto' = [auto EXCEPT !.pc[c] = "start_acquire", !.result[c] = "none"]

start_acquire(c) ==
    /\ auto.pc[c] = "start_acquire"
    /\ LockFree(auto)
    /\ auto' = [auto EXCEPT !.automation_lock = c, !.pc[c] = "start_check"]

\* if automation_running: return "Automation is already running"
start_check(c) ==
    /\ auto.pc[c] = "start_check"
    /\ IF auto.automation_running
       THEN auto' = [auto EXCEPT !.result[c] = "already running",
                                 !.automation_lock = NoClient,
                                 !.pc[c] = "idle"]
       ELSE auto' = [auto EXCEPT !.pc[c] = "start_thread"]

\* automation_running = True; automation_thread = Thread(...); start()
start_thread(c) ==
    /\ auto.pc[c] = "start_thread"
    /\ Unborn(auto) # {}
    /\ LET w == CHOOSE x \in Unborn(auto) : \A y \in Unborn(auto) : x <= y
       IN  auto' = [auto EXCEPT !.automation_running = TRUE,
                                !.automation_thread = w,
                                !.worker[w].pc = "started",
                                !.starts_ok = auto.starts_ok + 1,
                                !.result[c] = "started",
                                !.automation_lock = NoClient,
                                !.pc[c] = "idle"]

stop_call(c) ==
    /\ auto.pc[c] = "idle"
    /\ auto' = [auto EXCEPT !.pc[c] = "stop_acquire", !.result[c] = "none"]

stop_acquire(c) ==
    /\ auto.pc[c] = "stop_acquire"
    /\ LockFree(auto)
    /\ auto' = [auto EXCEPT !.automation_lock = c, !.pc[c] = "stop_check"]

\* if not automation_running: return; else automation_running = False
stop_check(c) ==
    /\ auto.pc[c] = "stop_check"
    /\ IF ~auto.automation_running
       THEN auto' = [auto EXCEPT !.result[c] = "not running",
                                 !.automation_lock = NoClient,
                                 !.pc[c] = "idle"]
       ELSE auto' = [auto EXCEPT !.automation_running = FALSE,
                                 !.pc[c] = "stop_join"]

\* automation_thread.join(timeout=5.0) returns when the worker has ended or
\* when five seconds have passed, whichever comes first: the step can be taken
\* with the worker ended and with the worker still alive. Then
\* automation_thread = None and the request returns.
stop_join(c) ==
    /\ auto.pc[c] = "stop_join"
    /\ auto' = [auto EXCEPT !.automation_thread = NoWorker,
                            !.stops_ok = auto.stops_ok + 1,
                            !.result[c] = "stopped",
                            !.automation_lock = NoClient,
                            !.pc[c] = "idle"]

\* _automation_worker: if router_instance and automation_running: process_trigger
w_begin(w) ==
    /\ auto.worker[w].pc = "started"
    /\ auto' = [auto EXCEPT !.worker[w].pc =
                    IF auto.automation_running THEN "pipeline" ELSE "loop"]

\* workflow.invoke runs node after node; no node and no edge reads
\* automation_running
w_node_begin(w) ==
    /\ auto.worker[w].pc = "pipeline"
    /\ ~auto.worker[w].in_flight
    /\ auto.worker[w].nodes < MaxNodes
    /\ auto' = [auto EXCEPT !.worker[w].in_flight = TRUE,
                            !.worker[w].nodes = auto.worker[w].nodes + 1]

w_node_end(w) ==
    /\ auto.worker[w].pc = "pipeline"
    /\ auto.worker[w].in_flight
    /\ auto' = [auto EXCEPT !.worker[w].in_flight = FALSE]

w_pipeline_end(w) ==
    /\ auto.worker[w].pc = "pipeline"
    /\ ~auto.worker[w].in_flight
    /\ auto.worker[w].nodes = MaxNodes
    /\ auto' = [auto EXCEPT !.worker[w].pc = "loop"]

\* while automation_running and server_running: time.sleep(5)
w_loop(w) ==
    /\ auto.worker[w].pc = "loop"
    /\ auto' = [auto EXCEPT !.worker[w].pc =
                    IF auto.automation_running THEN "sleep" ELSE "dead"]

w_wake(w) ==
    /\ auto.worker[w].pc = "sleep"
    /\ auto' = [auto EXCEPT !.worker[w].pc = "loop"]

InitAuto ==
    /\ PipelineOff
    /\ ReviewerIdle
    /\ DevOff /\ PlanOff /\ ActOff /\ GateOff /\ LlmOff /\ MetOff /\ RouteOff /\ RebOff /\ FanOff /\ HandOff /\ PgOff /\ AsmOff /\ ShrOff /\ DayOff /\ MemOff
    /\ auto = InitialAuto

not_auto == <<pipeline_vars, reviewer_vars, dev, plan, act, gate, llm, met, route, reb, fan, hand, pg, asm, shr, day, mem>>

NextAuto ==
    \/ \E c \in Clients : start_call(c) /\ UNCHANGED not_auto
    \/ \E c \in Clients : start_acquire(c) /\ UNCHANGED not_auto
    \/ \E c \in Clients : start_check(c) /\ UNCHANGED not_auto
    \/ \E c \in Clients : start_thread(c) /\ UNCHANGED not_auto
    \/ \E c \in Clients : stop_call(c) /\ UNCHANGED not_auto
    \/ \E c \in Clients : stop_acquire(c) /\ UNCHANGED not_auto
    \/ \E c \in Clients : stop_check(c) /\ UNCHANGED not_auto
    \/ \E c \in Clients : stop_join(c) /\ UNCHANGED not_auto
    \/ \E w \in Workers : w_begin(w) /\ UNCHANGED not_auto
    \/ \E w \in Workers : w_node_begin(w) /\ UNCHANGED not_auto
    \/ \E w \in Workers : w_node_end(w) /\ UNCHANGED not_auto
    \/ \E w \in Workers : w_pipeline_end(w) /\ UNCHANGED not_auto
    \/ \E w \in Workers : w_loop(w) /\ UNCHANGED not_auto
    \/ \E w \in Workers : w_wake(w) /\ UNCHANGED not_auto

SpecAuto == InitAuto /\ [][NextAuto]_vars

(***************************************************************************)
(* core/hitl.py : hitl_pause, with the thread that reads the human's answer *)
(***************************************************************************)
\* state.get("hitl_timeout_seconds", 30), in seconds
HITL_TIMEOUT == 30

\* pc is the position of hitl_pause, input the state of the get_input thread
\* ("blocked" inside input(), "ended" after it returned or raised), q the
\* queue between them, clock the seconds spent in thread.join(timeout)
InitialGate ==
    [pc             |-> "start",
     input          |-> "unborn",
     q              |-> << >>,
     clock          |-> 0,
     timed_out      |-> FALSE,
     human_decision |-> None,
     next           |-> None]

\* thread = Thread(target=get_input); thread.start(); thread.join(timeout)
h_start ==
    /\ gate.pc = "start"
    /\ gate' = [gate EXCEPT !.pc = "join", !.input = "blocked"]

\* a second passes while the node waits in join
h_tick ==
    /\ gate.pc = "join"
    /\ gate.input = "blocked"
    /\ gate.clock < HITL_TIMEOUT
    /\ gate' = [gate EXCEPT !.clock = gate.clock + 1]

\* input() returns: "Y" or an empty line approves, anything else rejects
h_input ==
    /\ gate.input = "blocked"
    /\ \E resp \in {"Y", "", "N"} :
          gate' = [gate EXCEPT
                     !.q = Append(gate.q, IF (IF resp = "" THEN "Y" ELSE resp) = "Y"
                                          THEN "approve" ELSE "reject"),
                     !.input = "ended"]

\* input() raises: EOFError is caught and answers approve; any other
\* exception (no stdin, closed stdin) ends the thread with nothing queued
h_input_raises ==
    /\ gate.input = "blocked"
    /\ \E eof \in BOOLEAN :
          gate' = [gate EXCEPT
                     !.q = IF eof THEN Append(gate.q, "approve") ELSE gate.q,
                     !.input = "ended"]

\* join returns when the thread has ended or the timeout has passed;
\* if thread.is_alive(): decision = "approve"
h_join_returns ==
    /\ gate.pc = "join"
    /\ gate.input = "ended" \/ gate.clock = HITL_TIMEOUT
    /\ gate' = IF gate.input = "blocked"
               THEN [gate EXCEPT !.pc = "decided", !.timed_out = TRUE,
                                 !.human_decision = "approve"]
               ELSE [gate EXCEPT !.pc = "get"]

\* decision = q.get(): waits until the queue holds an item
h_get ==
    /\ gate.pc = "get"
    /\ gate.q # << >>
    /\ gate' = [gate EXCEPT !.pc = "decided",
                            !.human_decision = Head(gate.q),
                            !.q = Tail(gate.q)]

\* the node returns and the conditional edge of "hitl" picks the next node
h_route ==
    /\ gate.pc = "decided"
    /\ gate' = [gate EXCEPT
                  !.pc = "returned",
                  !.next = AfterHitl([InitialRouterState EXCEPT
                                         !.human_decision = gate.human_decision])]

InitGate ==
    /\ PipelineOff
    /\ ReviewerIdle
    /\ DevOff /\ PlanOff /\ ActOff /\ AutoOff /\ LlmOff /\ MetOff /\ RouteOff /\ RebOff /\ FanOff /\ HandOff /\ PgOff /\ AsmOff /\ ShrOff /\ DayOff /\ MemOff
    /\ gate = InitialGate

not_gate == <<pipeline_vars, reviewer_vars, dev, plan, act, auto, llm, met, route, reb, fan, hand, pg, asm, shr, day, mem>>

NextGate ==
    \/ h_start /\ UNCHANGED not_gate
    \/ h_tick /\ UNCHANGED not_gate
    \/ h_input /\ UNCHANGED not_gate
    \/ h_input_raises /\ UNCHANGED not_gate
    \/ h_join_returns /\ UNCHANGED not_gate
    \/ h_get /\ UNCHANGED not_gate
    \/ h_route /\ UNCHANGED not_gate

SpecGate == InitGate /\ [][NextGate]_vars

(***************************************************************************)
(* services/llm_service.py : LLMService.call                               *)
(***************************************************************************)
\* max_retries: int = 3
MAX_RETRIES == 3
\* retry_delay: float = 2.0
RETRY_DELAY == 2

\* what one provider attempt can end in: a reply, HTTP 429, another HTTP error
\* status raised by raise_for_status (a 5xx of an overloaded provider, or a
\* 4xx of a bad request), or an exception that is no HTTP status error
\* (connection reset, timeout)
ProviderOutcomes == {"ok", "http_429", "http_5xx", "http_4xx", "connection_error"}
\* the failures that go away on their own
Transient == {"http_429", "http_5xx", "connection_error"}

RECURSIVE Pow2(_)
Pow2(n) == IF n = 0 THEN 1 ELSE 2 * Pow2(n - 1)

\* calls of LLMService.call made one after the other
MaxCalls == 2

\* llm_stats = {'total_calls': 0, ..., 'total_errors': 0}
InitialLlmStats == [total_calls |-> 0, total_errors |-> 0]

\* one call of LLMService.call with the module's statistics as they stand:
\* attempt is the loop variable of "for attempt in range(max_retries)",
\* outcomes the history of the attempts made, waited the seconds slept
StartCall(stats, n) ==
    [pc |-> "attempt", attempt |-> 0, outcomes |-> << >>, waited |-> 0,
     total_calls |-> stats.total_calls, total_errors |-> stats.total_errors,
     calls |-> n]

InitialLlm == StartCall(InitialLlmStats, 1)

\* the handlers of the retry loop: what follows an attempt that ended in o
AfterAttempt(l, o) ==
    LET l1 == [l EXCEPT !.outcomes = Append(l.outcomes, o)]
    IN  IF o = "ok"
        THEN [l1 EXCEPT !.pc = "returned", !.total_calls = l.total_calls + 1]
        ELSE IF o \in {"http_429", "http_5xx", "http_4xx"}
        THEN \* except aiohttp.ClientResponseError
             IF o = "http_429" /\ l.attempt < MAX_RETRIES - 1
             THEN [l1 EXCEPT !.pc = "backoff",
                             !.waited = l.waited + RETRY_DELAY * Pow2(l.attempt)]
             ELSE [l1 EXCEPT !.pc = "raised", !.total_errors = l.total_errors + 1]
        ELSE \* except Exception
             IF l.attempt < MAX_RETRIES - 1
             THEN [l1 EXCEPT !.pc = "backoff",
                             !.total_errors = l.total_errors + 1,
                             !.waited = l.waited + RETRY_DELAY * (l.attempt + 1)]
             ELSE [l1 EXCEPT !.pc = "raised", !.total_errors = l.total_errors + 1]

l_call_provider ==
    /\ llm.pc = "attempt"
    /\ llm.attempt < MAX_RETRIES
    /\ \E o \in ProviderOutcomes : llm' = AfterAttempt(llm, o)

\* await asyncio.sleep(wait_time); continue
l_backoff ==
    /\ llm.pc = "backoff"
    /\ llm' = [llm EXCEPT !.pc = "attempt", !.attempt = llm.attempt + 1]

\* the next call, once the previous one has returned or raised
l_call ==
    /\ llm.pc \in {"returned", "raised"}
    /\ llm.calls < MaxCalls
    /\ llm' = StartCall(llm, llm.calls + 1)

InitLlm ==
    /\ PipelineOff
    /\ ReviewerIdle
    /\ DevOff /\ PlanOff /\ ActOff /\ AutoOff /\ GateOff /\ MetOff /\ RouteOff /\ RebOff /\ FanOff /\ HandOff /\ PgOff /\ AsmOff /\ ShrOff /\ DayOff /\ MemOff
    /\ llm = InitialLlm

not_llm == <<pipeline_vars, reviewer_vars, dev, plan, act, auto, gate, met, route, reb, fan, hand, pg, asm, shr, day, mem>>

NextLlm ==
    \/ l_call_provider /\ UNCHANGED not_llm
    \/ l_backoff /\ UNCHANGED not_llm
    \/ l_call /\ UNCHANGED not_llm

SpecLlm == InitLlm /\ [][NextLlm]_vars

(***************************************************************************)
(* services/performance_tracker.py : increment_daily_metrics               *)
(***************************************************************************)
\* calls of increment_daily_metrics within one day
MaxUpdates == 2

Agents == {"PlannerAgent"}
Models == {"m1", "m2"}

\* agent_activities[agent_name] as the code creates it; present says whether
\* the key is in the map
NoAgentActivity ==
    [present |-> FALSE, Task_completed |-> 0, LLM_model_used |-> "unknown", tokens_used |-> 0]

\* the document the code starts from when find_one finds none; exists says
\* whether the collection holds a document for today, last_updated is the
\* reading of the clock at the write
EmptyDaily ==
    [exists |-> FALSE,
     tasks_completed |-> 0, pull_requests_created |-> 0, tokens_consumed |-> 0,
     code_quality_scores |-> 0, success_count |-> 0, failure_count |-> 0,
     agent_activities |-> [a \in Agents |-> NoAgentActivity],
     last_updated |-> 0, num_scores |-> 0, total_quality_score |-> 0]

\* the metrics argument: the five increments
ZeroMetrics ==
    [tasks_completed |-> 0, pull_requests_created |-> 0, tokens_consumed |-> 0,
     success_count |-> 0, failure_count |-> 0]
MetricsInputs ==
    { ZeroMetrics,
      [tasks_completed |-> 1, pull_requests_created |-> 1, tokens_consumed |-> 1,
       success_count |-> 1, failure_count |-> 0],
      [tasks_completed |-> 1, pull_requests_created |-> 0, tokens_consumed |-> 1,
       success_count |-> 0, failure_count |-> 1] }

\* the key "code_quality_score" of metrics: absent, or a score; the scores are
\* multiples of 60 so that every average within the bounds is a whole number
NoQuality == [has |-> FALSE, value |-> 0]
QualityInputs == {NoQuality, [has |-> TRUE, value |-> 0], [has |-> TRUE, value |-> 60]}

\* the agent_metrics argument: None, or the data of one agent
NoAgentMetrics ==
    [has |-> FALSE, agent |-> "PlannerAgent", Task_completed |-> 0,
     LLM_model_used |-> "m1", tokens_used |-> 0]
AgentMetricsInputs ==
    {NoAgentMetrics} \cup
    [has : {TRUE}, agent : Agents, Task_completed : {0, 1},
     LLM_model_used : Models, tokens_used : {0, 1}]

NoArgs == [metrics |-> ZeroMetrics, quality |-> NoQuality, agent_metrics |-> NoAgentMetrics]

\* the document as increment_daily_metrics hands it to replace_one
UpdatedDaily(doc, metrics, quality, agent_metrics, now) ==
    LET d0 == IF doc.exists THEN doc
              ELSE [EmptyDaily EXCEPT !.exists = TRUE, !.last_updated = now]
        d1 == [d0 EXCEPT
                 !.tasks_completed = @ + metrics.tasks_completed,
                 !.pull_requests_created = @ + metrics.pull_requests_created,
                 !.tokens_consumed = @ + metrics.tokens_consumed,
                 !.success_count = @ + metrics.success_count,
                 !.failure_count = @ + metrics.failure_count]
        d2 == IF quality.has
              THEN [d1 EXCEPT
                      !.total_quality_score = @ + quality.value,
                      !.num_scores = @ + 1,
                      !.code_quality_scores =
                          (d1.total_quality_score + quality.value) \div (d1.num_scores + 1)]
              ELSE d1
        old == d2.agent_activities[agent_metrics.agent]
        new == [present |-> TRUE,
                Task_completed |-> old.Task_completed + agent_metrics.Task_completed,
                LLM_model_used |-> agent_metrics.LLM_model_used,
                tokens_used |-> old.tokens_used + agent_metrics.tokens_used]
        d3 == IF agent_metrics.has
              THEN [d2 EXCEPT !.agent_activities[agent_metrics.agent] = new]
              ELSE d2
    IN  [d3 EXCEPT !.last_updated = now]

\* collection says whether self.collection is set, clock counts the calls made
\* (each reads a later time), before and args are the stored document and the
\* arguments of the last call
InitialMet(collection) ==
    [collection |-> collection, doc |-> EmptyDaily, clock |-> 0,
     before |-> EmptyDaily, args |-> NoArgs]

increment_daily_metrics ==
    /\ met.clock < MaxUpdates
    /\ \E metrics \in MetricsInputs, quality \in QualityInputs,
          agent_metrics \in AgentMetricsInputs, replace_ok \in BOOLEAN :
          LET now == met.clock + 1
              args == [metrics |-> metrics, quality |-> quality,
                       agent_metrics |-> agent_metrics]
          IN  met' = [met EXCEPT
                        !.clock = now,
                        !.before = met.doc,
                        !.args = args,
                        !.doc = IF met.collection /\ replace_ok
                                THEN UpdatedDaily(met.doc, metrics, quality, agent_metrics, now)
                                ELSE met.doc]

InitMet ==
    /\ PipelineOff
    /\ ReviewerIdle
    /\ DevOff /\ PlanOff /\ ActOff /\ AutoOff /\ GateOff /\ LlmOff /\ RouteOff /\ RebOff /\ FanOff /\ HandOff /\ PgOff /\ AsmOff /\ ShrOff /\ DayOff /\ MemOff
    /\ \E collection \in BOOLEAN : met = InitialMet(collection)

not_met == <<pipeline_vars, reviewer_vars, dev, plan, act, auto, gate, llm, route, reb, fan, hand, pg, asm, shr, day, mem>>

NextMet == increment_daily_metrics /\ UNCHANGED not_met

SpecMet == InitMet /\ [][NextMet]_vars

(***************************************************************************)
(* core/graph.py : the edge that leaves reviewer_agent, for every value of *)
(* MAX_REBUILD_ATTEMPTS up to MaxCap                                       *)
(***************************************************************************)
MaxCap == 2

\* what state.error can hold when the reviewer node returns
ReviewerExitErrors ==
    {None, "Code development failed", "Code rebuild failed", "Code review error"}

\* review_result as the reviewer node leaves it: a review that failed (or
\* never ran) is not approved
ReviewerExitReviews ==
    {r \in [success : BOOLEAN, overall_score : {0}, approved : BOOLEAN,
            tokens_used : {0}, error : {None}] : r.approved => r.success}

\* the RouterStates the predicate is applied to
ReviewerExitStates ==
    {[InitialRouterState EXCEPT !.error = e, !.review_result = r, !.rebuild_attempts = a] :
        e \in ReviewerExitErrors, r \in ReviewerExitReviews, a \in 0..MaxCap}

route_after_reviewer ==
    /\ route.pc = "reviewer_agent"
    /\ route' = [route EXCEPT
                    !.pc = "routed",
                    !.next = ReviewerEdge(should_rebuild_with(route.s, route.cap))]

InitRoute ==
    /\ PipelineOff
    /\ ReviewerIdle
    /\ DevOff /\ PlanOff /\ ActOff /\ AutoOff /\ GateOff /\ LlmOff /\ MetOff /\ RebOff /\ FanOff /\ HandOff /\ PgOff /\ AsmOff /\ ShrOff /\ DayOff /\ MemOff
    /\ \E s \in ReviewerExitStates, cap \in 0..MaxCap :
          route = [pc |-> "reviewer_agent", s |-> s, cap |-> cap, next |-> None]

not_route == <<pipeline_vars, reviewer_vars, dev, plan, act, auto, gate, llm, met, reb, fan, hand, pg, asm, shr, day, mem>>

NextRoute == route_after_reviewer /\ UNCHANGED not_route

SpecRoute == InitRoute /\ [][NextRoute]_vars

(***************************************************************************)
(* The feedback of a rebuild: graph/reviewer_graph.py collects the         *)
(* mistakes, agents/reviewer.py returns them, core/graph_nodes.py          *)
(* node_rebuild_code hands them to the developer sub-graph                 *)
(***************************************************************************)
\* the mistakes one analysis lists, at most
MaxMistakes == 2

Mistakes == {"m1", "m2"}
MistakeLists == UNION {[1..n -> Mistakes] : n \in 0..MaxMistakes}

\* the result of one analysis with its mistake list
MistakeResults ==
    {[success |-> FALSE, mistakes |-> << >>]}
    \cup {[success |-> TRUE, mistakes |-> m] : m \in MistakeLists}

\* _node_calculate_scores: "Collect all issues from successful analyses"
CollectIssues(c, s, st) ==
    (IF c.success THEN c.mistakes ELSE << >>)
    \o (IF s.success THEN s.mistakes ELSE << >>)
    \o (IF st.success THEN st.mistakes ELSE << >>)

\* the list-valued keys of the dict review_generated_code_with_langgraph returns
ReviewLists(final_state) == [issues |-> final_state.all_issues]

\* dict.get(key, default)
DictGet(d, key, default) == IF key \in DOMAIN d THEN d[key] ELSE default

\* node_rebuild_code: feedback = state["review_result"].get("all_issues", [])
RebuildFeedback(review_result) == DictGet(review_result, "all_issues", << >>)

InitialReb(c, s, st) ==
    [pc |-> "reviewer_agent", completeness_result |-> c, security_result |-> s,
     standards_result |-> st, all_issues |-> << >>, review_result |-> [issues |-> << >>],
     feedback |-> << >>, mode |-> None]

\* a review that succeeds and rejects
b_review_code ==
    /\ reb.pc = "reviewer_agent"
    /\ LET all_issues == CollectIssues(reb.completeness_result, reb.security_result,
                                       reb.standards_result)
       IN  reb' = [reb EXCEPT
                     !.pc = "rebuilder",
                     !.all_issues = all_issues,
                     !.review_result = ReviewLists([all_issues |-> all_issues])]

\* node_rebuild_code calls generate_code(feedback=feedback), whose first
\* node routes on the feedback
b_rebuild_code ==
    /\ reb.pc = "rebuilder"
    /\ LET feedback == RebuildFeedback(reb.review_result)
       IN  reb' = [reb EXCEPT
                     !.pc = "reviewer_agent_again",
                     !.feedback = feedback,
                     !.mode = route_feedback([feedback |-> feedback # << >>])]

InitReb ==
    /\ PipelineOff
    /\ ReviewerIdle
    /\ DevOff /\ PlanOff /\ ActOff /\ AutoOff /\ GateOff /\ LlmOff /\ MetOff /\ RouteOff /\ FanOff /\ HandOff /\ PgOff /\ AsmOff /\ ShrOff /\ DayOff /\ MemOff
    /\ \E c \in MistakeResults, s \in MistakeResults, st \in MistakeResults :
          /\ c.success \/ s.success \/ st.success
          /\ reb = InitialReb(c, s, st)

not_reb == <<pipeline_vars, reviewer_vars, dev, plan, act, auto, gate, llm, met, route, fan, hand, pg, asm, shr, day, mem>>

NextReb ==
    \/ b_review_code /\ UNCHANGED not_reb
    \/ b_rebuild_code /\ UNCHANGED not_reb

SpecReb == InitReb /\ [][NextReb]_vars

(***************************************************************************)
(* Developer graph: the per-file fan-out (src/graph/developer_graph.py)    *)
(***************************************************************************)

\* largest number of files a deployment document lists in the model
MaxFanFiles == 5

\* the cap on concurrent per-file LLM calls (default 4).  The only such cap in
\* the source is max_workers = 4 of the thread pool in generate_code_files
\* (src/tools/developer_tool.py:109), a tool the developer graph does not call;
\* no setting named DEV_PARALLELISM is read anywhere.
DEV_PARALLELISM == 4

FanFiles == 1..MaxFanFiles

\* _route_to_file_generation: one Send("generate_file", ...) per file listed
\* in files_to_generate, all returned from a single routing call
route_to_file_generation(files_to_generate) ==
    [i \in FanFiles |-> IF i <= files_to_generate THEN "sent" ELSE "none"]

\* the branches whose call_llm has been issued and has not yet returned
InFlight(f) == {i \in FanFiles : f.branch[i] = "calling"}

InitialFan(n) ==
    [node |-> "plan_files",
     files_to_generate |-> n,
     branch |-> [i \in FanFiles |-> "none"]]

\* the conditional edge after plan_files dispatches every branch at once
f_route_to_file_generation ==
    /\ fan.node = "plan_files"
    /\ fan' = [fan EXCEPT !.branch = route_to_file_generation(fan.files_to_generate),
                          !.node = IF fan.files_to_generate = 0
                                      THEN "END" ELSE "generate_file"]

\* generate_file, first half: a dispatched branch issues its call_llm.  The
\* graph is compiled and invoked without a concurrency setting, so nothing in
\* the code holds a dispatched branch back.
f_generate_file_call ==
    /\ fan.node = "generate_file"
    /\ \E i \in FanFiles :
          /\ fan.branch[i] = "sent"
          /\ fan' = [fan EXCEPT !.branch[i] = "calling"]

\* generate_file, second half: call_llm returns (or raises and is caught)
f_generate_file_return ==
    /\ fan.node = "generate_file"
    /\ \E i \in FanFiles :
          /\ fan.branch[i] = "calling"
          /\ fan' = [fan EXCEPT !.branch[i] = "returned"]

\* the join: merge_generated_files runs once every branch has returned
f_merge_generated_files ==
    /\ fan.node = "generate_file"
    /\ \A i \in FanFiles : fan.branch[i] \in {"none", "returned"}
    /\ fan' = [fan EXCEPT !.node = "merge_generated_files"]

InitFan ==
    /\ PipelineOff
    /\ ReviewerIdle
    /\ DevOff /\ PlanOff /\ ActOff /\ AutoOff /\ GateOff /\ LlmOff /\ MetOff /\ RouteOff /\ RebOff /\ HandOff /\ PgOff /\ AsmOff /\ ShrOff /\ DayOff /\ MemOff
    /\ \E n \in 0..MaxFanFiles : fan = InitialFan(n)

not_fan == <<pipeline_vars, reviewer_vars, dev, plan, act, auto, gate, llm, met, route, reb, hand, pg, asm, shr, day, mem>>

NextFan ==
    \/ f_route_to_file_generation /\ UNCHANGED not_fan
    \/ f_generate_file_call /\ UNCHANGED not_fan
    \/ f_generate_file_return /\ UNCHANGED not_fan
    \/ f_merge_generated_files /\ UNCHANGED not_fan

SpecFan == InitFan /\ [][NextFan]_vars

(***************************************************************************)
(* The developer -> reviewer handoff (core/graph_nodes.py node_develop_code,*)
(* node_review_code, node_rebuild_code; agents/developer_agent.py           *)
(* generate_code; agents/reviewer.py review_generated_code_with_langgraph)  *)
(***************************************************************************)
\* issues of one run in the handoff model
MaxHandIssues == 4

\* the argument review_queue of a call that does not pass one
NoQueue == "no_queue"

\* generate_code, the handoff part: review_queue.put({files, issue_data,
\* thread_id}) when a queue was passed and the graph run succeeded
PublishFiles(review_queue, q, ok, issue) ==
    IF review_queue # NoQueue /\ ok THEN Append(q, issue) ELSE q

\* review_generated_code_with_langgraph, the handoff part: with a queue it
\* takes the first message, or gives up after the timeout when there is none
\* and keeps the files it was given; without a queue it reads nothing
ReceiveFiles(review_queue, q) ==
    IF review_queue = NoQueue
    THEN [source |-> "state", timed_out |-> FALSE, queue |-> q]
    ELSE IF Len(q) > 0
         THEN [source |-> "queue", timed_out |-> FALSE, queue |-> Tail(q)]
         ELSE [source |-> "state", timed_out |-> TRUE, queue |-> q]

\* the review_queue that node_review_code passes to the reviewer: none
ReviewCallQueue == NoQueue

\* the review_queue that node_rebuild_code passes to generate_code: none
RebuildCallQueue == NoQueue

InitialHand(n) ==
    [pc |-> "code_generator",
     issues |-> n,
     issue |-> 1,
     review_queue |-> << >>,
     source |-> "none",
     timed_out |-> FALSE,
     rebuild_attempts |-> 0,
     published |-> 0,
     received |-> 0]

\* node_develop_code: a fresh queue.Queue() goes into the state and into
\* generate_code; a failed generation sets state.error
q_develop_code ==
    /\ hand.pc = "code_generator"
    /\ \E ok \in BOOLEAN :
          LET q == PublishFiles("review_queue", << >>, ok, hand.issue)
          IN  hand' = [hand EXCEPT
                         !.review_queue = q,
                         !.published = hand.published + Len(q),
                         !.source = "none",
                         !.timed_out = FALSE,
                         !.pc = IF ok THEN "reviewer_agent" ELSE "error_handler"]

\* node_review_code: the reviewer is called with the files of the pipeline
\* state and no review_queue argument
q_review_code ==
    /\ hand.pc = "reviewer_agent"
    /\ \E success \in BOOLEAN, approved \in BOOLEAN :
          LET r == ReceiveFiles(ReviewCallQueue, hand.review_queue)
              s == [error |-> None,
                    review_result |-> [success |-> success, approved |-> approved],
                    rebuild_attempts |-> hand.rebuild_attempts]
          IN  /\ approved => success
              /\ hand' = [hand EXCEPT
                            !.review_queue = r.queue,
                            !.source = r.source,
                            !.timed_out = r.timed_out,
                            !.received = hand.received + (IF r.source = "queue" THEN 1 ELSE 0),
                            !.pc = AfterReviewer(s)]

\* node_rebuild_code: generate_code with the feedback and no review_queue
q_rebuild_code ==
    /\ hand.pc = "rebuilder"
    /\ \E ok \in BOOLEAN :
          hand' = [hand EXCEPT
                     !.review_queue = PublishFiles(RebuildCallQueue, hand.review_queue,
                                                   ok, hand.issue),
                     !.rebuild_attempts = hand.rebuild_attempts + 1,
                     !.pc = IF ok THEN "reviewer_agent" ELSE "error_handler"]

\* the PR node and the error terminal: on to the next issue, whose
\* node_develop_code makes its own queue, or to the end of the run
q_next_issue ==
    /\ hand.pc \in {"pull_request", "error_handler"}
    /\ hand' = IF hand.pc = "pull_request" /\ hand.issue < hand.issues
               THEN [hand EXCEPT !.issue = hand.issue + 1,
                                 !.rebuild_attempts = 0,
                                 !.pc = "code_generator"]
               ELSE [hand EXCEPT !.pc = "END"]

InitHand ==
    /\ PipelineOff
    /\ ReviewerIdle
    /\ DevOff /\ PlanOff /\ ActOff /\ AutoOff /\ GateOff /\ LlmOff /\ MetOff /\ RouteOff /\ RebOff /\ FanOff /\ PgOff /\ AsmOff /\ ShrOff /\ DayOff /\ MemOff
    /\ \E n \in 1..MaxHandIssues : hand = InitialHand(n)

not_hand == <<pipeline_vars, reviewer_vars, dev, plan, act, auto, gate, llm, met, route, reb, fan, pg, asm, shr, day, mem>>

NextHand ==
    \/ q_develop_code /\ UNCHANGED not_hand
    \/ q_review_code /\ UNCHANGED not_hand
    \/ q_rebuild_code /\ UNCHANGED not_hand
    \/ q_next_issue /\ UNCHANGED not_hand

SpecHand == InitHand /\ [][NextHand]_vars

(***************************************************************************)
(* The planner sub-graph (graph/planner_graph.py build_planner_graph) as   *)
(* PlannerAgent.plan_issue runs it.  Scores are in tenths (0..100).        *)
(***************************************************************************)
\* a generation step returns at most this many subtasks
MaxPlanned == 2
\* float(os.getenv("GOT_SCORE_THRESHOLD", "7.0"))
GOT_SCORE_THRESHOLD == 70
\* overall_subtask_score of the linear path: 10.0
COT_OVERALL_SCORE == 100

\* what the method-choice call can yield: a JSON object whose method field is
\* "CoT", "GOT", some other string, or absent; or an exception (the LLM call
\* or the JSON parsing raises)
MethodAnswers == {"CoT", "GOT", "other", "missing", "raise"}

\* decision.get("method", "GOT"), and "GOT" in the exception handler
DecidedMethod(answer) ==
    IF answer \in {"missing", "raise"} THEN "GOT" ELSE answer

\* _route_planning_method
route_planning_method(s) ==
    IF s.planning_method = "CoT" THEN "CoT"
    ELSE IF s.planning_method = "GOT" THEN "GOT"
    ELSE "error"

\* _route_success_or_error of the planner graph
planner_route_success_or_error(s) == IF s.error # "" THEN "error" ELSE "success"

\* _check_overall_score
check_overall_score(s) ==
    IF s.error # "" THEN "error"
    ELSE IF s.overall_subtask_score >= GOT_SCORE_THRESHOLD THEN "proceed"
    ELSE "review"

\* the edge tables of build_planner_graph
PlannerEdge(from, label) ==
    CASE from = "decide_planning_method" /\ label = "CoT" -> "generate_cot_subtasks"
      [] from = "decide_planning_method" /\ label = "GOT" -> "generate_subtasks"
      [] from = "generate_cot_subtasks" /\ label = "success" -> "set_approved_subtasks"
      [] from = "generate_subtasks" /\ label = "success" -> "score_subtasks"
      [] from = "score_subtasks" /\ label = "success" -> "merge_subtasks"
      [] from = "merge_subtasks" /\ label = "success" -> "set_approved_subtasks"
      [] from = "set_approved_subtasks" /\ label = "proceed" -> "END"
      [] from = "set_approved_subtasks" /\ label = "review" -> "hitl_validation"
      [] from = "hitl_validation" /\ label = "success" -> "END"
      [] OTHER -> "handle_error"

\* plan_issue: initial_state; generated is the length of the list the
\* generation step returned (-1: no generation step has returned one)
InitialPlannerState ==
    [node |-> "decide_planning_method",
     answer |-> "none",
     planning_method |-> None,
     generated |-> -1,
     scored_subtasks |-> 0,
     merged_subtasks |-> 0,
     approved_subtasks |-> 0,
     overall_subtask_score |-> 0,
     needs_human |-> FALSE,
     error |-> "",
     visited |-> {},
     success |-> FALSE]

\* s after the node it is at has run, moved along the edge chosen by label
PlannerStep(s, label) ==
    [s EXCEPT !.node = PlannerEdge(pg.node, label),
              !.visited = pg.visited \cup {pg.node}]

p_decide_planning_method ==
    /\ pg.node = "decide_planning_method"
    /\ \E answer \in MethodAnswers :
          LET s == [pg EXCEPT !.answer = answer,
                              !.planning_method = DecidedMethod(answer),
                              !.error = IF answer = "raise" THEN "decision failed" ELSE @]
          IN  pg' = PlannerStep(s, route_planning_method(s))

\* the linear path: the list the model returned, empty or not, becomes
\* merged_subtasks with the overall score 10.0
p_generate_cot_subtasks ==
    /\ pg.node = "generate_cot_subtasks"
    /\ \E ok \in BOOLEAN, n \in 0..MaxPlanned :
          LET s == IF ok
                   THEN [pg EXCEPT !.generated = n,
                                   !.merged_subtasks = n,
                                   !.overall_subtask_score = COT_OVERALL_SCORE]
                   ELSE [pg EXCEPT !.error = "CoT subtask generation failed"]
          IN  pg' = PlannerStep(s, planner_route_success_or_error(s))

\* the graph path: the nodes of the subtask graph, none for an empty list
p_generate_subtasks ==
    /\ pg.node = "generate_subtasks"
    /\ \E ok \in BOOLEAN, n \in 0..MaxPlanned :
          LET s == IF ok
                   THEN [pg EXCEPT !.generated = n]
                   ELSE [pg EXCEPT !.error = "GOT subtask generation failed"]
          IN  pg' = PlannerStep(s, planner_route_success_or_error(s))

\* scoring: an empty graph is scored without a model call and gets the
\* overall score 7.5; otherwise the model scores some of the subtasks (all
\* of them by default when it scores none) and the overall is their average
p_score_subtasks ==
    /\ pg.node = "score_subtasks"
    /\ \E ok \in BOOLEAN, m \in 1..MaxPlanned, overall \in {0, 65, DEFAULT_SUBTASK_SCORE, 100} :
          LET s == IF pg.generated = 0
                   THEN [pg EXCEPT !.scored_subtasks = 0,
                                   !.overall_subtask_score = DEFAULT_SUBTASK_SCORE]
                   ELSE IF ok /\ m <= pg.generated
                   THEN [pg EXCEPT !.scored_subtasks = m,
                                   !.overall_subtask_score = overall]
                   ELSE [pg EXCEPT !.error = "Subtask scoring failed"]
          IN  pg' = PlannerStep(s, planner_route_success_or_error(s))

\* merging: the model is asked also when nothing was scored; a reply with no
\* merged subtask is a failure
p_merge_subtasks ==
    /\ pg.node = "merge_subtasks"
    /\ \E k \in 0..MaxMerged, overall \in {0, 65, DEFAULT_SUBTASK_SCORE, 100} :
          LET s == IF k > 0
                   THEN [pg EXCEPT !.merged_subtasks = k,
                                   !.overall_subtask_score =
                                       IF pg.scored_subtasks = 0 THEN 0 ELSE overall]
                   ELSE [pg EXCEPT !.error = "No merged subtasks were generated"]
          IN  pg' = PlannerStep(s, planner_route_success_or_error(s))

p_set_approved_subtasks ==
    /\ pg.node = "set_approved_subtasks"
    /\ LET s == [pg EXCEPT !.approved_subtasks = pg.merged_subtasks,
                           !.needs_human = FALSE]
       IN  pg' = PlannerStep(s, check_overall_score(s))

\* the console gate of the sub-graph: Y (also on timeout) or anything else
p_hitl_validation ==
    /\ pg.node = "hitl_validation"
    /\ \E approval \in BOOLEAN :
          LET s == IF approval
                   THEN [pg EXCEPT !.approved_subtasks = pg.merged_subtasks,
                                   !.needs_human = FALSE]
                   ELSE [pg EXCEPT !.needs_human = TRUE,
                                   !.error = "Subtasks rejected by human - rebuild required"]
          IN  pg' = PlannerStep(s, planner_route_success_or_error(s))

p_handle_error ==
    /\ pg.node = "handle_error"
    /\ pg' = [pg EXCEPT !.needs_human = TRUE,
                        !.node = "END",
                        !.visited = pg.visited \cup {"handle_error"}]

\* plan_issue after graph.invoke: success is False when the final state has
\* an error, True otherwise
p_plan_issue ==
    /\ pg.node = "END"
    /\ pg' = [pg EXCEPT !.node = "returned", !.success = (pg.error = "")]

\* node_plan_issue and the edge after the planner node, for a finished
\* plan_issue: the next node of the pipeline
AfterPlanIssue(p) ==
    AfterPlanner([error |-> IF p.success THEN None ELSE "Planning failed",
                  needs_human |-> p.needs_human])

InitPg ==
    /\ PipelineOff
    /\ ReviewerIdle
    /\ DevOff /\ PlanOff /\ ActOff /\ AutoOff /\ GateOff /\ LlmOff /\ MetOff /\ RouteOff /\ RebOff /\ FanOff /\ HandOff /\ AsmOff /\ ShrOff /\ DayOff /\ MemOff
    /\ pg = InitialPlannerState

not_pg == <<pipeline_vars, reviewer_vars, dev, plan, act, auto, gate, llm, met, route, reb, fan, hand, asm, shr, day, mem>>

NextPg ==
    \/ p_decide_planning_method /\ UNCHANGED not_pg
    \/ p_generate_cot_subtasks /\ UNCHANGED not_pg
    \/ p_generate_subtasks /\ UNCHANGED not_pg
    \/ p_score_subtasks /\ UNCHANGED not_pg
    \/ p_merge_subtasks /\ UNCHANGED not_pg
    \/ p_set_approved_subtasks /\ UNCHANGED not_pg
    \/ p_hitl_validation /\ UNCHANGED not_pg
    \/ p_handle_error /\ UNCHANGED not_pg
    \/ p_plan_issue /\ UNCHANGED not_pg

SpecPg == InitPg /\ [][NextPg]_vars

(***************************************************************************)
(* tools/assembler_tool.py : generate_deployment_document and              *)
(* _validate_document_structure                                            *)
(***************************************************************************)
\* the JSON documents the assembler model can write, as far as file_structure
\* goes: the field itself present or not, files absent, not a list, or a
\* list of file entries (possibly empty), file_types present or not
ModelDocuments ==
    [has_file_structure : BOOLEAN,
     files_kind : {"missing", "not_a_list", "list"},
     files : FileLists,
     has_file_types : BOOLEAN]

\* a document as the model writes it: without file_structure there is nothing
\* under it, and only a list has entries
WellFormedDocument(d) ==
    /\ ~d.has_file_structure => (d.files_kind = "missing" /\ ~d.has_file_types)
    /\ d.files_kind # "list" => d.files = << >>

\* _validate_document_structure: a missing file_structure becomes {}, files
\* that are absent, empty or not a list become [], file_types that are
\* absent become []
validate_document_structure(d) ==
    [d EXCEPT !.has_file_structure = TRUE,
              !.files_kind = "list",
              !.files = IF d.files_kind = "list" THEN d.files ELSE << >>,
              !.has_file_types = TRUE]

InitialAsm(d) ==
    [pc |-> "call_llm", reply |-> d, document |-> d, success |-> FALSE]

\* the LLM call returns the text of the document or raises
g_call_llm ==
    /\ asm.pc = "call_llm"
    /\ \E ok \in BOOLEAN :
          asm' = [asm EXCEPT !.pc = IF ok THEN "extract_json" ELSE "failed"]

\* _extract_json_from_response: the document, or ValueError
g_extract_json ==
    /\ asm.pc = "extract_json"
    /\ \E ok \in BOOLEAN :
          asm' = [asm EXCEPT !.pc = IF ok THEN "validate" ELSE "failed"]

g_validate_document_structure ==
    /\ asm.pc = "validate"
    /\ asm' = [asm EXCEPT !.document = validate_document_structure(asm.document),
                          !.pc = "validated"]

\* the return statements: success True with the validated document, success
\* False from the two exception handlers
g_generate_deployment_document ==
    /\ asm.pc \in {"validated", "failed"}
    /\ asm' = [asm EXCEPT !.success = (asm.pc = "validated"), !.pc = "returned"]

InitAsm ==
    /\ PipelineOff
    /\ ReviewerIdle
    /\ DevOff /\ PlanOff /\ ActOff /\ AutoOff /\ GateOff /\ LlmOff /\ MetOff /\ RouteOff /\ RebOff /\ FanOff /\ HandOff /\ PgOff /\ ShrOff /\ DayOff /\ MemOff
    /\ \E d \in ModelDocuments :
          /\ WellFormedDocument(d)
          /\ asm = InitialAsm(d)

not_asm == <<pipeline_vars, reviewer_vars, dev, plan, act, auto, gate, llm, met, route, reb, fan, hand, pg, shr, day, mem>>

NextAsm ==
    \/ g_call_llm /\ UNCHANGED not_asm
    \/ g_extract_json /\ UNCHANGED not_asm
    \/ g_validate_document_structure /\ UNCHANGED not_asm
    \/ g_generate_deployment_document /\ UNCHANGED not_asm

SpecAsm == InitAsm /\ [][NextAsm]_vars

(***************************************************************************)
(* The shared mutable structures and their locks (core/router.py           *)
(* processing_stats, pending_tasks, activity_logs, stats_lock,             *)
(* activity_lock; agents/developer_agent.py global_project_memory)         *)
(***************************************************************************)
\* threads that call into the shared structures
MaxCallers == 2
\* each thread makes at most this many calls
MaxSharedCalls == 2

Callers == 1..MaxCallers
\* no thread (the holder of a free lock)
NoCaller == 0

\* the locks that exist: stats_lock and activity_lock of core/router.py
SharedLocks == {"stats_lock", "activity_lock"}

\* the mutex that belongs to a structure; DeveloperAgent creates none for its
\* global_project_memory
OwnMutex(structure) ==
    CASE structure = "telemetry" -> "stats_lock"
      [] structure = "activity_logs" -> "activity_lock"
      [] OTHER -> "no lock"

Acquire(lock) == [kind |-> "acquire", on |-> lock]
Release(lock) == [kind |-> "release", on |-> lock]
Write(structure) == [kind |-> "write", on |-> structure]

\* the operations on the shared structures, as the locks they take and the
\* structures they write, in program order
SharedOps ==
    [safe_stats_update |->
         <<Acquire("stats_lock"), Write("telemetry"), Release("stats_lock")>>,
     safe_activity_log |->
         <<Acquire("activity_lock"), Write("activity_logs"), Release("activity_lock")>>,
     \* node_process_next_issue: pending_tasks += 1 and tasks_pending
     count_pending_task |->
         <<Acquire("stats_lock"), Write("telemetry"), Release("stats_lock")>>,
     \* reset_system_stats: the counters under stats_lock, then pending_tasks = 0
     \* after the with block, then the log under activity_lock
     reset_system_stats |->
         <<Acquire("stats_lock"), Write("telemetry"), Release("stats_lock"),
           Write("telemetry"),
           Acquire("activity_lock"), Write("activity_logs"), Release("activity_lock")>>,
     \* generate_code: the memory nodes of the developer graph append to the
     \* lists and dicts of global_project_memory (the copy() handed to the graph
     \* is shallow)
     update_project_memory |->
         <<Write("project_memory")>>]

InitialShr ==
    [lock |-> [l \in SharedLocks |-> NoCaller],
     op |-> [t \in Callers |-> "idle"],
     at |-> [t \in Callers |-> 0],
     writing |-> [t \in Callers |-> "nothing"],
     calls |-> [t \in Callers |-> 0]]

\* the step a thread is about to take
NextStep(t) == SharedOps[shr.op[t]][shr.at[t]]

\* a thread enters one of the operations
s_call ==
    \E t \in Callers, o \in DOMAIN SharedOps :
       /\ shr.op[t] = "idle"
       /\ shr.calls[t] < MaxSharedCalls
       /\ shr' = [shr EXCEPT !.op[t] = o, !.at[t] = 1, !.calls[t] = @ + 1]

\* with lock: entered when the lock is free
s_acquire ==
    \E t \in Callers :
       /\ shr.op[t] # "idle" /\ shr.writing[t] = "nothing"
       /\ shr.at[t] <= Len(SharedOps[shr.op[t]])
       /\ NextStep(t).kind = "acquire"
       /\ shr.lock[NextStep(t).on] = NoCaller
       /\ shr' = [shr EXCEPT !.lock[NextStep(t).on] = t, !.at[t] = @ + 1]

\* a write begins ...
s_write_begin ==
    \E t \in Callers :
       /\ shr.op[t] # "idle" /\ shr.writing[t] = "nothing"
       /\ shr.at[t] <= Len(SharedOps[shr.op[t]])
       /\ NextStep(t).kind = "write"
       /\ shr' = [shr EXCEPT !.writing[t] = NextStep(t).on]

\* ... and ends
s_write_end ==
    \E t \in Callers :
       /\ shr.writing[t] # "nothing"
       /\ shr' = [shr EXCEPT !.writing[t] = "nothing", !.at[t] = @ + 1]

\* the end of a with block
s_release ==
    \E t \in Callers :
       /\ shr.op[t] # "idle" /\ shr.writing[t] = "nothing"
       /\ shr.at[t] <= Len(SharedOps[shr.op[t]])
       /\ NextStep(t).kind = "release"
       /\ shr' = [shr EXCEPT !.lock[NextStep(t).on] = NoCaller, !.at[t] = @ + 1]

\* the operation returns
s_return ==
    \E t \in Callers :
       /\ shr.op[t] # "idle"
       /\ shr.at[t] > Len(SharedOps[shr.op[t]])
       /\ shr' = [shr EXCEPT !.op[t] = "idle", !.at[t] = 0]

InitShr ==
    /\ PipelineOff
    /\ ReviewerIdle
    /\ DevOff /\ PlanOff /\ ActOff /\ AutoOff /\ GateOff /\ LlmOff /\ MetOff /\ RouteOff /\ RebOff /\ FanOff /\ HandOff /\ PgOff /\ AsmOff /\ DayOff /\ MemOff
    /\ shr = InitialShr

not_shr == <<pipeline_vars, reviewer_vars, dev, plan, act, auto, gate, llm, met, route, reb, fan, hand, pg, asm, day, mem>>

NextShr ==
    \/ s_call /\ UNCHANGED not_shr
    \/ s_acquire /\ UNCHANGED not_shr
    \/ s_write_begin /\ UNCHANGED not_shr
    \/ s_write_end /\ UNCHANGED not_shr
    \/ s_release /\ UNCHANGED not_shr
    \/ s_return /\ UNCHANGED not_shr

SpecShr == InitShr /\ [][NextShr]_vars

(***************************************************************************)
(* services/performance_tracker.py : increment_daily_metrics called by     *)
(* several threads; the day's document is reduced to one of its counters   *)
(***************************************************************************)
\* each thread makes at most this many updates
MaxMetricCalls == 2
\* the largest delta of one update
MaxDelta == 2

\* the value of a counter in a document: doc.get(key, 0), and 0 in the
\* document made up when find_one returns None
CounterOf(stored) == stored

\* doc[key] = doc.get(key, 0) + metrics[key]
Incremented(doc, delta) == doc + delta

InitialDay ==
    [stored |-> 0,
     applied |-> 0,
     pc |-> [t \in Callers |-> "idle"],
     doc |-> [t \in Callers |-> 0],
     delta |-> [t \in Callers |-> 0],
     calls |-> [t \in Callers |-> 0]]

\* the first half of increment_daily_metrics: find_one reads the document of
\* the day and the increments are added to the copy the caller holds
c_find_one ==
    \E t \in Callers, delta \in 1..MaxDelta :
       /\ day.pc[t] = "idle"
       /\ day.calls[t] < MaxMetricCalls
       /\ day' = [day EXCEPT !.pc[t] = "found",
                             !.doc[t] = Incremented(CounterOf(day.stored), delta),
                             !.delta[t] = delta,
                             !.calls[t] = @ + 1]

\* the second half: replace_one(query, doc, upsert=True) stores the caller's
\* copy in place of whatever the collection holds by then
c_replace_one ==
    \E t \in Callers :
       /\ day.pc[t] = "found"
       /\ day' = [day EXCEPT !.pc[t] = "idle",
                             !.stored = day.doc[t],
                             !.applied = @ + day.delta[t]]

InitDay ==
    /\ PipelineOff
    /\ ReviewerIdle
    /\ DevOff /\ PlanOff /\ ActOff /\ AutoOff /\ GateOff /\ LlmOff /\ MetOff /\ RouteOff /\ RebOff /\ FanOff /\ HandOff /\ PgOff /\ AsmOff /\ ShrOff /\ MemOff
    /\ day = InitialDay

not_day == <<pipeline_vars, reviewer_vars, dev, plan, act, auto, gate, llm, met, route, reb, fan, hand, pg, asm, shr, mem>>

NextDay ==
    \/ c_find_one /\ UNCHANGED not_day
    \/ c_replace_one /\ UNCHANGED not_day

SpecDay == InitDay /\ [][NextDay]_vars

(***************************************************************************)
(* graph/developer_graph.py : the correction path of the developer graph   *)
(* and the mistake lists of DeveloperAgent.global_project_memory, which    *)
(* live as long as the agent and are shared by all its generate_code calls *)
(***************************************************************************)
\* the review mistakes are numbered 1..MaxFeedbackItems
MaxFeedbackItems == 2
\* the longest feedback list handed to generate_code
MaxFeedbackLen == 2
\* generate_code is called at most this many times
MaxCorrections == 3

FeedbackItems == 1..MaxFeedbackItems
FeedbackLists == UNION {[1..n -> FeedbackItems] : n \in 0..MaxFeedbackLen}

ListItems(list) == {list[i] : i \in 1..Len(list)}

\* for mistake in feedback: if mistake not in cumulative: cumulative.append(mistake)
RECURSIVE accumulate_feedback(_, _)
accumulate_feedback(cumulative_mistakes, feedback) ==
    IF feedback = << >> THEN cumulative_mistakes
    ELSE accumulate_feedback(
             IF Head(feedback) \in ListItems(cumulative_mistakes)
             THEN cumulative_mistakes
             ELSE Append(cumulative_mistakes, Head(feedback)),
             Tail(feedback))

\* what _update_memory_after_correction_node does to cumulative_mistakes:
\* the node never touches the list
cumulative_after_correction(cumulative_mistakes, feedback) == cumulative_mistakes

\* resolved_mistakes.extend(current_iteration_feedback)
resolved_after_correction(resolved_mistakes, feedback) == resolved_mistakes \o feedback

InitialMem ==
    [node |-> "idle",
     feedback |-> << >>,
     current_iteration_feedback |-> << >>,
     cumulative_mistakes |-> << >>,
     resolved_mistakes |-> << >>,
     error |-> "",
     success |-> FALSE,
     calls |-> 0]

\* generate_code builds the initial state: the shallow copy of
\* global_project_memory shares both mistake lists with the agent
m_generate_code ==
    /\ mem.node \in {"idle", "returned"}
    /\ mem.calls < MaxCorrections
    /\ \E feedback \in FeedbackLists :
          mem' = [mem EXCEPT !.node = "check_feedback",
                             !.feedback = feedback,
                             !.current_iteration_feedback = << >>,
                             !.error = "",
                             !.success = FALSE,
                             !.calls = @ + 1]

\* _route_feedback: a non-empty feedback list takes the correction path
m_check_feedback ==
    /\ mem.node = "check_feedback"
    /\ mem' = [mem EXCEPT !.node = IF mem.feedback # << >>
                                   THEN "accumulate_feedback" ELSE "generation"]

\* the generation path reads and writes neither mistake list
m_generation ==
    /\ mem.node = "generation"
    /\ \E ok \in BOOLEAN :
          mem' = [mem EXCEPT !.error = IF ok THEN "" ELSE "generation failed",
                             !.node = "END"]

m_accumulate_feedback ==
    /\ mem.node = "accumulate_feedback"
    /\ mem' = [mem EXCEPT !.current_iteration_feedback = mem.feedback,
                          !.cumulative_mistakes =
                               accumulate_feedback(mem.cumulative_mistakes, mem.feedback),
                          !.node = "correct_code"]

m_correct_code ==
    /\ mem.node = "correct_code"
    /\ \E ok \in BOOLEAN :
          mem' = [mem EXCEPT !.error = IF ok THEN "" ELSE "Code correction failed",
                             !.node = IF ok THEN "update_memory_after_correction"
                                            ELSE "END"]

m_update_memory_after_correction ==
    /\ mem.node = "update_memory_after_correction"
    /\ mem' = [mem EXCEPT !.resolved_mistakes =
                               resolved_after_correction(mem.resolved_mistakes,
                                                         mem.current_iteration_feedback),
                          !.cumulative_mistakes =
                               cumulative_after_correction(mem.cumulative_mistakes,
                                                           mem.current_iteration_feedback),
                          !.node = "END"]

\* generate_code after graph.invoke
m_return ==
    /\ mem.node = "END"
    /\ mem' = [mem EXCEPT !.node = "returned", !.success = (mem.error = "")]

InitMem ==
    /\ PipelineOff
    /\ ReviewerIdle
    /\ DevOff /\ PlanOff /\ ActOff /\ AutoOff /\ GateOff /\ LlmOff /\ MetOff /\ RouteOff /\ RebOff /\ FanOff /\ HandOff /\ PgOff /\ AsmOff /\ ShrOff /\ DayOff
    /\ mem = InitialMem

not_mem == <<pipeline_vars, reviewer_vars, dev, plan, act, auto, gate, llm, met, route, reb, fan, hand, pg, asm, shr, day>>

NextMem ==
    \/ m_generate_code /\ UNCHANGED not_mem
    \/ m_check_feedback /\ UNCHANGED not_mem
    \/ m_generation /\ UNCHANGED not_mem
    \/ m_accumulate_feedback /\ UNCHANGED not_mem
    \/ m_correct_code /\ UNCHANGED not_mem
    \/ m_update_memory_after_correction /\ UNCHANGED not_mem
    \/ m_return /\ UNCHANGED not_mem

SpecMem == InitMem /\ [][NextMem]_vars

(***************************************************************************)
(* Properties                                                              *)
(***************************************************************************)
\* the issue the pipeline is working on (0 before the first one is picked up)
Cur == state.current_issue

\* C1: for every issue of a run the reviewer node is entered at most
\* MAX_REBUILD_ATTEMPTS + 1 times, whatever the review verdicts are; the count
\* is per issue (rebuild_attempts restarts at 0 when an issue is picked up).
C1_RebuildBound ==
    \A i \in Issues : reviewer_entered[i] <= MAX_REBUILD_ATTEMPTS + 1

\* C1 witness: two issues of the same run each used the full allowance.
C1_Witness ==
    /\ reviewer_entered[1] = MAX_REBUILD_ATTEMPTS + 1
    /\ reviewer_entered[2] = MAX_REBUILD_ATTEMPTS + 1

\* C2: an issue has a PR or a done-transition only if its most recent review
\* succeeded and approved; an issue whose every allowed review was a rejection
\* goes to the error terminal with no PR and no done-transition.
C2_PrOnlyWhenApproved ==
    /\ (Cur \in prs \cup done) =>
          (state.review_result.success /\ state.review_result.approved)
    /\ (/\ Cur \in Issues
        /\ reviewer_entered[Cur] = MAX_REBUILD_ATTEMPTS + 1
        /\ state.review_result.success
        /\ ~state.review_result.approved) =>
          (node \in {"error_handler", "END"} /\ Cur \notin prs /\ Cur \notin done)

\* C2 witness: issue 1 got its PR and its done-transition, issue 2 was rejected
\* MAX_REBUILD_ATTEMPTS + 1 times and the run ended.
C2_Witness ==
    /\ 1 \in prs /\ 1 \in done
    /\ Cur = 2
    /\ reviewer_entered[2] = MAX_REBUILD_ATTEMPTS + 1
    /\ state.review_result.success /\ ~state.review_result.approved
    /\ state.error = None
    /\ node = "END"

\* C3: when the run has ended, every issue of the fetched to-do list has been
\* processed (its planner has started), also when an issue ended at the error
\* terminal.
C3_SiblingsProcessed ==
    node = "END" => \A i \in 1..Len(state.todo_jira_issues) : i \in planned

\* C4: after every node, tokens_used is the sum of the per-agent sub-totals.
C4_TokenConservation ==
    state.tokens_used =
        state.planner_tokens + state.assembler_tokens + state.developer_tokens
        + state.reviewer_tokens + state.rebuilder_tokens

\* C5: issues are planned in tracker order and one at a time: when the planner
\* of issue j has started, every issue before j was planned and has been left.
C5_InOrderNoOverlap ==
    /\ \A j \in planned : \A i \in 1..(j - 1) : i \in planned /\ i \in left
    /\ Cardinality(planned \ left) <= 1

\* C5 witness: the planner of the second issue has started.
C5_Witness == 2 \in planned /\ 1 \in left /\ node = "project_creator"

\* C6: a PR node that creates no PR sets no error, transitions nothing to done,
\* counts no error, advances the index and hands over to the next issue, or to
\* the quality scan after the last issue.
C6_PrFailureNotFatal ==
    [][(node = "pull_request" /\ ~state'.code_pr_created) =>
          /\ state'.error = None
          /\ done' = done
          /\ prs' = prs
          /\ processing_stats'.errors = processing_stats.errors
          /\ state'.current_issue_index = state.current_issue_index + 1
          /\ node' = IF state'.current_issue_index < Len(state'.todo_jira_issues)
                     THEN "next_issue_processor" ELSE "sonarqube_analysis"]_vars

\* C6 witness: with a repo client at hand, the PR of issue 1 failed and the
\* pipeline is about to pick up issue 2.
C6_Witness ==
    /\ github_client
    /\ node = "next_issue_processor"
    /\ Cur = 1 /\ 1 \in left /\ 1 \notin prs
    /\ ~state.code_pr_created

\* C7: the error terminal adds exactly one to errors and exactly one to
\* tasks_failed.
C7_ErrorCounters ==
    [][node = "error_handler" =>
          /\ processing_stats'.errors = processing_stats.errors + 1
          /\ processing_stats'.tasks_failed = processing_stats.tasks_failed + 1]_vars

\* the activity events with status error
ErrorEvents == {k \in 1..Len(activity_logs) : activity_logs[k].status = "error"}

\* C8: there is one error event per terminal failure and each carries a
\* non-empty error string, the one the failing node or review reported.
C8_ErrorEventCarriesString ==
    /\ Cardinality(ErrorEvents) = processing_stats.errors
    /\ \A k \in ErrorEvents :
          /\ activity_logs[k].details # None
          /\ activity_logs[k].details \in {state.error, state.review_result.error}

\* C9: when all three analyses of a review failed, the review has failed with
\* no verdict and the issue goes to the error terminal, never to a rebuild or
\* a PR.
C9_AllAnalysesFailed ==
    analyses_failed =>
        /\ ~state.review_result.success
        /\ ~state.review_result.approved
        /\ node \in {"error_handler", "END"}
        /\ Cur \notin prs

\* C9 witness: a review whose three analyses failed, after the error terminal.
C9_Witness ==
    /\ analyses_failed
    /\ node = "END"
    /\ state.final_result.present /\ ~state.final_result.success

\* C10: a finished review is approved exactly when the overall score it
\* reports is at least the threshold.
C10_ApprovedIffReported ==
    (rnode = "END" /\ rstate.success) =>
        (rstate.approved <=> rstate.overall_score >= rstate.threshold)

C12_FileSetComplete ==
    (dev.node = "returned" /\ dev.success) =>
        /\ Cardinality(dev.generated_files) >= Len(dev.files)
        /\ dev.generated_files = Filenames(dev.files)

\* C13: every scored subtask and every merged subtask has a score in [0,10]
\* (0..100 tenths), whatever the scoring model returned.
C13_SubtaskScoreBounds ==
    /\ \A i \in DOMAIN plan.scored : plan.scored[i] \in 0..100
    /\ \A k \in DOMAIN plan.merged : plan.merged[k] \in 0..100

\* C14: whenever no append is in progress (the lock is free), the activity log
\* holds at most 50 events and they are the most recently inserted ones,
\* newest first: the k-th event of the log is the k-th last insert.
C14_ActivityRing ==
    act.activity_lock = NoThread =>
        LET logs == act.activity_logs
            n    == act.inserted
        IN  /\ Len(logs) <= LOG_CAP
            /\ Len(logs) = IF n < LOG_CAP THEN n ELSE LOG_CAP
            /\ \A k \in 1..Len(logs) : logs[k] = n - k + 1

\* C14 witness: more than 50 events were appended, the oldest ones were
\* dropped, and another thread is waiting for the lock.
C14_Witness ==
    /\ act.activity_lock = NoThread
    /\ act.inserted > LOG_CAP
    /\ Len(act.activity_logs) = LOG_CAP
    /\ \E th \in Threads : act.pc[th] = "acquire"

\* C15: there is never more than one active session, however start requests
\* interleave: the successful starts exceed the stops by one exactly while
\* automation_running is set, so a start made during a session creates no
\* worker, and the request that found the session active is answered
\* "already running".
C15_StartIdempotent ==
    /\ auto.starts_ok - auto.stops_ok \in {0, 1}
    /\ auto.automation_lock = NoClient =>
          auto.starts_ok - auto.stops_ok = IF auto.automation_running THEN 1 ELSE 0
    /\ \A c \in Clients :
          (auto.pc[c] = "idle" /\ auto.result[c] = "started") => auto.starts_ok >= 1

\* C15 witness: two requests raced for one session; one started it and the
\* other was answered "already running", with one worker created.
C15_Witness ==
    /\ auto.automation_running
    /\ auto.automation_lock = NoClient
    /\ auto.starts_ok = 1 /\ auto.stops_ok = 0
    /\ auto.result["ui1"] = "already running"
    /\ auto.result["ui2"] = "started"
    /\ Cardinality({w \in Workers : auto.worker[w].pc # "unborn"}) = 1

\* C16: when stop_automation returns, the worker it joined has ended.
C16_StopTerminates ==
    [][\A c \in Clients :
          (auto.pc[c] = "stop_join" /\ auto'.pc[c] = "idle") =>
              ~is_alive(auto', auto.automation_thread)]_vars

\* C17: once automation_running has been cleared, no worker begins another
\* workflow node.
C17_CooperativeCancel ==
    [][~auto.automation_running =>
          \A w \in Workers : auto'.worker[w].nodes = auto.worker[w].nodes]_vars

\* C18: a gate whose wait timed out has decided approve and hands over to the
\* node before the assembler, and the gate is never left waiting for an
\* answer that nobody can give any more (the input thread has ended and the
\* queue is empty).
C18_HitlTimeoutApproves ==
    /\ gate.timed_out => gate.human_decision = "approve"
    /\ (gate.timed_out /\ gate.pc = "returned") => gate.next = "project_creator"
    /\ ~(gate.pc = "get" /\ gate.input = "ended" /\ gate.q = << >>)

\* C19: a call makes at most MAX_RETRIES provider attempts, and an attempt
\* before the last that ended in a transient failure or a rate-limit signal is
\* followed by another attempt: a call that has failed has made MAX_RETRIES
\* attempts, unless its last attempt ended in a failure that is not transient.
C19_RetriesBeforeFailing ==
    /\ Len(llm.outcomes) <= MAX_RETRIES
    /\ llm.pc = "raised" =>
          \/ Len(llm.outcomes) = MAX_RETRIES
          \/ llm.outcomes[Len(llm.outcomes)] \notin Transient

\* C20: a daily-metrics update with zero deltas (every increment 0, no
\* quality score, no agent data) leaves the stored document of the day as it
\* was before the call, field by field.
C20_ZeroDeltasNoChange ==
    (met.clock > 0 /\ met.args = NoArgs) => met.doc = met.before

C22_ErrorDiverts ==
    state.error # None =>
        /\ node # Crashed
        /\ node = "END" =>
              /\ processing_stats.errors = 1
              /\ state.final_result.present
              /\ ~state.final_result.success
              /\ \E k \in 1..Len(activity_logs) : activity_logs[k].status = "error"

\* C23: a rebuilder step hands the developer sub-graph, as feedback, the
\* mistake list of the review that has just rejected the code, and the
\* sub-graph runs in correction mode.
C23_RebuildUsesMistakes ==
    reb.pc = "reviewer_agent_again" =>
        /\ reb.feedback = reb.all_issues
        /\ reb.mode = "correct"

\* the place of a node on the way from the trigger to the end of the run
StagePos(n) ==
    CASE n = "idle" -> 0
      [] n = "trigger_processor" -> 1
      [] n = "jira_client" -> 2
      [] n = "next_issue_processor" -> 3
      [] n = "planner_agent" -> 4
      [] n = "hitl" -> 5
      [] n = "project_creator" -> 6
      [] n = "assembler_agent" -> 7
      [] n = "developer_agent" -> 8
      [] n = "reviewer_agent" -> 9
      [] n = "rebuilder" -> 10
      [] n = "pull_request" -> 11
      [] n = "sonarqube_analysis" -> 12
      [] n \in {"finalizer", "error_handler"} -> 13
      [] OTHER -> 14

\* what is left to use up: the issues not yet passed by the PR node, the
\* rebuilds still allowed for the issue (all of them when the next issue is
\* about to be picked up), and the error flag not yet raised
LoopBudget ==
    (Len(state.todo_jira_issues) - state.current_issue_index) * (MAX_REBUILD_ATTEMPTS + 2)
    + (IF node = "next_issue_processor" THEN MAX_REBUILD_ATTEMPTS
       ELSE MAX_REBUILD_ATTEMPTS - state.rebuild_attempts)
    + (IF state.error = None THEN 1 ELSE 0)

\* C24: every run ends after a bounded number of node executions: a step
\* that goes back in the graph (PR node to next-issue, rebuilder to reviewer,
\* HITL gate to planner) uses up some of a finite budget, which the index
\* advanced by the PR node and the rebuild counter provide, and no step ever
\* refills it.
C24_LoopsBounded ==
    [][/\ node \notin {"idle", "trigger_processor", "jira_client"} =>
             LoopBudget' <= LoopBudget
       /\ StagePos(node') <= StagePos(node) => LoopBudget' < LoopBudget]_vars

\* C26: a human rejection at the HITL gate routes back to the planner and
\* raises rebuild_attempts by one.
C26_RejectCountsAsRebuild ==
    [][(node = "hitl" /\ state'.human_decision = "reject") =>
          /\ node' = "planner_agent"
          /\ state'.rebuild_attempts = state.rebuild_attempts + 1]_vars

\* C25: every label a routing predicate returns has a successor in the table
\* of its edge: the pipeline never stops at a node for want of a next node.
C25_EveryLabelHasSuccessor == node # Crashed

\* C27: the PR node advances current_issue_index by exactly one on every path
\* through it (PR created, PR failed, exception, no repo client), and the
\* pipeline then goes to next-issue if the index is still inside the to-do
\* list and to the quality scan otherwise.
C27_PrNodeAdvances ==
    [][node = "pull_request" =>
          /\ state'.current_issue_index = state.current_issue_index + 1
          /\ node' = IF state'.current_issue_index < Len(state'.todo_jira_issues)
                     THEN "next_issue_processor" ELSE "sonarqube_analysis"]_vars

\* C27 witness: without a repo client, two issues went through the PR node,
\* the first handing over to next-issue and the second to the quality scan.
C27_Witness ==
    /\ ~github_client
    /\ node = "sonarqube_analysis"
    /\ left = {1, 2}
    /\ state.current_issue_index = 2
    /\ Len(state.todo_jira_issues) = 2

\* C28: within an issue the planner runs before the assembler, the assembler
\* before the developer, the developer before the first reviewer entry, and a
\* rebuilder step before every later reviewer entry: the assembler is entered
\* only through the project creator, which follows the planner of the issue
\* (or its HITL gate); the developer only from the assembler; the reviewer
\* for the first time only from the developer and every later time only from
\* the rebuilder; the rebuilder only from the reviewer.
C28_StageOrder ==
    [][/\ node' = "hitl" => node = "planner_agent"
       /\ node' = "project_creator" =>
             (node \in {"planner_agent", "hitl"} /\ Cur \in planned')
       /\ node' = "assembler_agent" =>
             (node = "project_creator" /\ Cur \in planned /\ reviewer_entered[Cur] = 0)
       /\ node' = "developer_agent" =>
             (node = "assembler_agent" /\ reviewer_entered[Cur] = 0)
       /\ node' = "reviewer_agent" =>
             \/ node = "developer_agent" /\ reviewer_entered[Cur] = 0
             \/ node = "rebuilder" /\ reviewer_entered[Cur] >= 1
       /\ node' = "rebuilder" =>
             (node = "reviewer_agent" /\ reviewer_entered'[Cur] >= 1)]_vars

\* C28 witness: the second issue went planner, HITL gate, assembler,
\* developer, reviewer, rebuilder, reviewer and is at the PR node.
C28_Witness ==
    /\ node = "pull_request"
    /\ Cur = 2
    /\ hitl_rejects = 0
    /\ state.needs_human
    /\ state.rebuild_attempts = 1
    /\ reviewer_entered[2] = 2

\* C29: whatever start and stop requests are made, at most one automation
\* worker is inside process_trigger at any moment.
C29_OnePipelineAtATime ==
    Cardinality({w \in Workers : auto.worker[w].pc = "pipeline"}) <= 1

\* C30: during per-file generation never more than DEV_PARALLELISM (4) LLM
\* calls are in flight, however many files the deployment document lists.
C30_FanOutBounded ==
    Cardinality(InFlight(fan)) <= DEV_PARALLELISM

\* C31: the tokens_used that the developer sub-graph hands back after a
\* successful run equals the sum of the tokens its LLM calls reported, nothing
\* counted twice and nothing dropped.
C31_DeveloperTokensSum ==
    (dev.node = "returned" /\ dev.success) => dev.tokens_used = dev.llm_tokens

\* C32: the reviewer step that follows a generation receives the message the
\* developer published for the issue, and it works from the files of the
\* pipeline state only when the wait for a message timed out.
C32_HandoffReceived ==
    [][hand.pc = "reviewer_agent" =>
          /\ Len(hand.review_queue) > 0 =>
                (hand'.source = "queue" /\ hand'.received = hand.received + 1)
          /\ hand'.source = "state" => hand'.timed_out]_vars

\* the score of a dimension in the aggregate when a failed analysis stands
\* in with the score d
ScoreOr(result, d) == IF result.success THEN result.score ELSE d

\* the analyses of a review that failed
FailedAnalyses ==
    {r \in {"completeness", "security", "standards"} :
        ~(CASE r = "completeness" -> rstate.completeness_result.success
            [] r = "security" -> rstate.security_result.success
            [] OTHER -> rstate.standards_result.success)}

\* C33: when exactly one of the three analyses failed, the review still ends
\* with an overall score and a verdict, and the failed dimension entered the
\* aggregate with a default score between 70 and 80.
C33_FailSoftDefault ==
    (rnode = "END" /\ rstate.error = None /\ Cardinality(FailedAnalyses) = 1) =>
        /\ rstate.success
        /\ \E d \in 700..800 :
              rstate.overall_score =
                  Round1(WeightedOverall(ScoreOr(rstate.completeness_result, d),
                                         ScoreOr(rstate.security_result, d),
                                         ScoreOr(rstate.standards_result, d)))

\* C35: after a successful scoring step the scored list has exactly one entry
\* for every generated subtask (one without a usable score carrying 7.5).
C35_ScoredListComplete ==
    plan.node \in {"merge_subtasks", "done"} => DOMAIN plan.scored = plan.nodes

\* C34: when subtask generation yields an empty list, on the linear or on the
\* graph path, planning fails and the pipeline goes to the error terminal,
\* not on towards the assembler.
C34_EmptyPlanFails ==
    (pg.node = "returned" /\ pg.generated = 0) =>
        /\ ~pg.success
        /\ AfterPlanIssue(pg) = "error_handler"

\* C36: when the method choice gives no unambiguous answer (no method field,
\* an unrecognised value, or a failed call) the planner takes the graph path.
C36_AmbiguousTakesGraph ==
    (pg.node = "returned" /\ pg.answer \in {"missing", "other", "raise"}) =>
        /\ "generate_subtasks" \in pg.visited
        /\ "generate_cot_subtasks" \notin pg.visited

\* C37: a deployment document returned with success has a non-empty
\* file_structure.files; when the model's document had it missing or empty,
\* it holds exactly one (default) file entry.
C37_FilesNeverEmpty ==
    (asm.pc = "returned" /\ asm.success) =>
        /\ Len(asm.document.files) >= 1
        /\ (asm.reply.files_kind = "missing" \/ asm.reply.files = << >>) =>
              Len(asm.document.files) = 1

\* C38: a thread that is writing the telemetry counters, the activity log or
\* project memory holds that structure's own mutex, so no two threads write
\* the same structure at the same time.
C38_WritesUnderOwnMutex ==
    /\ \A t \in Callers :
          shr.writing[t] # "nothing" =>
              /\ OwnMutex(shr.writing[t]) \in SharedLocks
              /\ shr.lock[OwnMutex(shr.writing[t])] = t
    /\ \A t, u \in Callers :
          (t # u /\ shr.writing[t] # "nothing") => shr.writing[u] # shr.writing[t]

\* C39: daily-metrics increments are additive under every interleaving: when
\* no update is in progress, a counter of the day's document equals its
\* initial value plus the sum of all deltas applied.
C39_IncrementsAdditive ==
    (\A t \in Callers : day.pc[t] = "idle") => day.stored = day.applied

\* C40: after a successful correction every feedback item that was applied
\* is in resolved_mistakes and is no longer in cumulative_mistakes.
C40_AppliedFeedbackMoved ==
    (mem.node = "returned" /\ mem.success /\ mem.feedback # << >>) =>
        \A mistake \in ListItems(mem.current_iteration_feedback) :
            /\ mistake \in ListItems(mem.resolved_mistakes)
            /\ mistake \notin ListItems(mem.cumulative_mistakes)

====
